---- MODULE Spec2Model ----
(***************************************************************************)
(* A model of the FTL event search package (src/ftl_search): the registry  *)
(* and node indexers of registry.py, the query engine search_once of       *)
(* cli.py and its process-wide cache, run from several threads.            *)
(*                                                                         *)
(* Strings are sequences of one-character strings (<<"a", " ", "b">>): the *)
(* text operations of the code (strip, lower, whitespace removal,          *)
(* substring test) are computed on them.  An attribute is absent or has a  *)
(* non-empty value; an absent one is the empty sequence.                   *)
(*                                                                         *)
(* A value computed once and used several times is passed as an operator   *)
(* argument, as the code binds it to a local variable.                     *)
(***************************************************************************)
EXTENDS Integers, Sequences, FiniteSets, TLC

(***************************************************************************)
(* Bounds of the model.                                                    *)
(***************************************************************************)
MaxQueryLen == 2
MaxCalls == 3
MaxItems == 8

\* a loop evaluates its accumulator before it goes round again
Evaluated(v) == v = v

(***************************************************************************)
(* Text.                                                                   *)
(***************************************************************************)
IsSpace(c) == c = " "

LowerChar(c) ==
    CASE c = "A" -> "a"
      [] c = "B" -> "b"
      [] c = "D" -> "d"
      [] c = "I" -> "i"
      [] OTHER -> c

\* str.lower()
Lower(s) == [i \in 1..Len(s) |-> LowerChar(s[i])]

\* the part of s between the first and the last of the positions solid
Between(s, solid) ==
    IF solid = {} THEN <<>>
    ELSE SubSeq(s, CHOOSE i \in solid : \A j \in solid : i <= j,
                   CHOOSE i \in solid : \A j \in solid : j <= i)

\* str.strip()
Strip(s) == Between(s, {i \in 1..Len(s) : ~IsSpace(s[i])})

\* "".join(s.split()) and re.sub(r"\s+", "", s)
RemoveWs(s) == SelectSeq(s, LAMBDA c : ~IsSpace(c))

\* the elements of s at the positions keep, in that order
Pick(s, keep) == [k \in 1..Len(keep) |-> s[keep[k]]]

Indices(s) == [i \in 1..Len(s) |-> i]

\* re.sub(r"\s+", " ", s): every run of white space becomes one space
CollapseWs(s) ==
    Pick(s, SelectSeq(Indices(s),
                      LAMBDA i : ~IsSpace(s[i]) \/ i = 1 \/ ~IsSpace(s[i - 1])))

\* " ".join(parts)
RECURSIVE JoinSp(_)
JoinSp(parts) ==
    IF parts = <<>> THEN <<>>
    ELSE IF Len(parts) = 1 THEN parts[1]
    ELSE parts[1] \o <<" ">> \o JoinSp(Tail(parts))

\* needle in hay
Contains(hay, needle) ==
    \E i \in 0..(Len(hay) - Len(needle)) :
        \A j \in 1..Len(needle) : hay[i + j] = needle[j]

NonEmptyParts(parts) == SelectSeq(parts, LAMBDA p : p # <<>>)

\* re.sub(r"\s+", " ", " ".join(p for p in parts if p).strip())
JoinParts(parts) == CollapseWs(Strip(JoinSp(NonEmptyParts(parts))))

\* the elements of a sequence, as a set
Range(s) == {s[k] : k \in 1..Len(s)}

\* a or b: a when it is not empty
OrElse(a, b) == IF a # <<>> THEN a ELSE b

(***************************************************************************)
(* The corpus.  A file is its element tree in document order: element i    *)
(* has a tag, the attributes name and load, its own text and the index of  *)
(* its parent (0 for the root, element 1).  A file the XML parser rejects  *)
(* has parsed = FALSE and only what the fallback regular expressions find  *)
(* in it.  Files are listed in discovery order.                            *)
(***************************************************************************)
El(tag, name, load, text, parent) ==
    [tag |-> tag, name |-> name, load |-> load, text |-> text, parent |-> parent]

\* list(node): the children of element i, in document order
Children(f, i) == SelectSeq(Indices(f.elems), LAMBDA j : f.elems[j].parent = i)

\* element j is element i or lies below it
RECURSIVE IsUnder(_, _, _)
IsUnder(f, j, i) ==
    j = i \/ (j > i /\ IsUnder(f, f.elems[j].parent, i))

\* node.iter(): the subtree of element i in document order
Iter(f, i) == SelectSeq(Indices(f.elems), LAMBDA j : IsUnder(f, j, i))

\* (t.text or "").strip() of each of the elements its
StripTexts(f, its) == [k \in 1..Len(its) |-> Strip(f.elems[its[k]].text)]

\* _gather_subtree_text
_gather_subtree_text(f, i) == JoinSp(NonEmptyParts(StripTexts(f, Iter(f, i))))

(***************************************************************************)
(* Python dicts keep insertion order, and an overwrite keeps the key's     *)
(* place: a dict is a sequence of <<key, value>> pairs.                    *)
(***************************************************************************)
DictHas(d, k) == \E i \in 1..Len(d) : d[i][1] = k

DictGet(d, k) == d[CHOOSE i \in 1..Len(d) : d[i][1] = k][2]

\* d.get(k, default)
DictGetOr(d, k, default) == IF DictHas(d, k) THEN DictGet(d, k) ELSE default

DictPut(d, k, v) ==
    IF DictHas(d, k)
    THEN [i \in 1..Len(d) |-> IF d[i][1] = k THEN <<k, v>> ELSE d[i]]
    ELSE Append(d, <<k, v>>)

DictKeys(d) == {d[i][1] : i \in 1..Len(d)}

(***************************************************************************)
(* File discovery order.  A path is its sequence of parts, each a string.  *)
(***************************************************************************)
CharRank(c) ==
    CASE c = "/" -> 1
      [] c = "1" -> 2
      [] c = "2" -> 3
      [] c = "3" -> 4
      [] c = "a" -> 5
      [] c = "c" -> 6
      [] c = "e" -> 7
      [] c = "h" -> 8
      [] c = "n" -> 9
      [] c = "z" -> 10
      [] OTHER -> 11

\* s < t for Python strings
RECURSIVE StrLess(_, _)
StrLess(s, t) ==
    IF t = <<>> THEN FALSE
    ELSE IF s = <<>> THEN TRUE
    ELSE IF CharRank(Head(s)) # CharRank(Head(t))
         THEN CharRank(Head(s)) < CharRank(Head(t))
         ELSE StrLess(Tail(s), Tail(t))

\* str(path)
RECURSIVE PathStr(_)
PathStr(parts) ==
    IF parts = <<>> THEN <<>>
    ELSE IF Len(parts) = 1 THEN parts[1]
    ELSE parts[1] \o <<"/">> \o PathStr(Tail(parts))

zh_markers == {<<"z", "h">>, <<"c", "h", "s">>, <<"c", "n">>}

\* a variant of the sort key that orders by path alone
PathOnlyKey(path) == <<0, Lower(PathStr(path))>>

\* is_zh of _xml_language_preference_key: a part of the path holds a marker
is_zh(path) ==
    \E i \in 1..Len(path) : \E m \in zh_markers : Contains(Lower(path[i]), m)

\* _xml_language_preference_key
_xml_language_preference_key(path) ==
    <<IF is_zh(path) THEN 1 ELSE 0, Lower(PathStr(path))>>

KeyLess(k1, k2) == k1[1] < k2[1] \/ (k1[1] = k2[1] /\ StrLess(k1[2], k2[2]))

\* file i is sorted before file j: its key is smaller, or equal and i was
\* discovered first (sorted() is stable)
Before(keys, i, j) ==
    KeyLess(keys[i], keys[j]) \/ (~KeyLess(keys[j], keys[i]) /\ i < j)

SortBy(files, keys) ==
    [r \in 1..Len(files) |->
        files[CHOOSE i \in 1..Len(files) :
                 Cardinality({j \in 1..Len(files) : Before(keys, j, i)}) + 1 = r]]

\* sorted(files, key=_xml_language_preference_key)
SortFiles(files) ==
    SortBy(files, [i \in 1..Len(files) |-> _xml_language_preference_key(files[i].path)])

(***************************************************************************)
(* build_registry.  A Registry holds events (name -> <<file, element>>),   *)
(* event_lists, text_lists, ship_defs and event_ancestors; an element is   *)
(* referred to as <<index of its file in sorted order, index in the file>>.*)
(***************************************************************************)
ship_kinds == <<"surrender", "destroyed", "deadCrew", "escape", "gotaway">>

IsNamedEvent(e) == e.tag = "event" /\ e.name # <<>>

\* _iter_named_events_etree: the named <event> elements, in document order
_iter_named_events_etree(f) == SelectSeq(Iter(f, 1), LAMBDA i : IsNamedEvent(f.elems[i]))

\* for name, el in _iter_named_events_etree(root): events[name] = (fp, el)
RECURSIVE PutEvents(_, _, _, _)
PutEventsNext(events1, f, fi, rest) ==
    IF Evaluated(events1) THEN PutEvents(events1, f, fi, rest) ELSE events1
PutEvents(events, f, fi, its) ==
    IF its = <<>> THEN events
    ELSE PutEventsNext(DictPut(events, f.elems[Head(its)].name, <<fi, Head(its)>>),
                       f, fi, Tail(its))

\* visit(node, ancestors) of build_registry: the named-ancestor chains
RECURSIVE VisitAnc(_, _, _, _)
RECURSIVE VisitAncAll(_, _, _, _)
VisitAncNext(anc1, f, rest, cur_anc) ==
    IF Evaluated(anc1) THEN VisitAncAll(anc1, f, rest, cur_anc) ELSE anc1
VisitAncAll(anc, f, kids, cur_anc) ==
    IF kids = <<>> THEN anc
    ELSE VisitAncNext(VisitAnc(anc, f, Head(kids), cur_anc), f, Tail(kids), cur_anc)
VisitAnc(anc, f, i, ancestors) ==
    IF IsNamedEvent(f.elems[i])
    THEN VisitAncNext(DictPut(anc, f.elems[i].name, ancestors), f, Children(f, i),
                      Append(ancestors, f.elems[i].name))
    ELSE VisitAncAll(anc, f, Children(f, i), ancestors)

\* the entry of one outcome branch of a ship block
ShipEntry(sub, fi, i) ==
    IF sub.load # <<>> THEN [load |-> sub.load, el |-> <<>>]
    ELSE [load |-> <<>>, el |-> <<fi, i>>]

\* one ship block: defs[k] = entry, the last child of a kind wins
RECURSIVE ShipDefs(_, _, _, _)
ShipDefsNext(defs1, f, fi, rest) ==
    IF Evaluated(defs1) THEN ShipDefs(defs1, f, fi, rest) ELSE defs1
ShipDefs(defs, f, fi, subs) ==
    IF subs = <<>> THEN defs
    ELSE ShipDefsNext(DictPut(defs, f.elems[Head(subs)].tag,
                              ShipEntry(f.elems[Head(subs)], fi, Head(subs))),
                      f, fi, Tail(subs))

\* the children kids that are of the k-th outcome kind
OfKind(f, kids, k) == SelectSeq(kids, LAMBDA c : f.elems[c].tag = ship_kinds[k])

KindByKind(f, kids) ==
    OfKind(f, kids, 1) \o OfKind(f, kids, 2) \o OfKind(f, kids, 3)
        \o OfKind(f, kids, 4) \o OfKind(f, kids, 5)

\* the children of a ship block that are outcome branches, kind by kind
ShipSubs(f, i) == KindByKind(f, Children(f, i))

\* the elements the eventList / textList / ship pass acts on
ListElems(f) ==
    SelectSeq(Iter(f, 1),
              LAMBDA i : /\ f.elems[i].tag \in {"eventList", "textList", "ship"}
                         /\ f.elems[i].name # <<>>)

\* "if items: event_lists[name] = items", "if vals: text_lists[name] = vals"
PutIfAny(d, k, v) == IF v # <<>> THEN DictPut(d, k, v) ELSE d

\* the <event> children of an eventList
ListItems(f, fi, i) ==
    Pick([j \in 1..Len(f.elems) |-> <<fi, j>>],
         SelectSeq(Children(f, i), LAMBDA c : f.elems[c].tag = "event"))

\* the stripped texts of the <text> children of a textList
ListVals(f, i) ==
    StripTexts(f, SelectSeq(Children(f, i), LAMBDA c : f.elems[c].tag = "text"))

\* the eventList / textList / ship pass on one element
CollectList(reg, f, fi, i) ==
    IF f.elems[i].tag = "eventList"
    THEN [reg EXCEPT !.event_lists =
             PutIfAny(reg.event_lists, f.elems[i].name, ListItems(f, fi, i))]
    ELSE IF f.elems[i].tag = "textList"
    THEN [reg EXCEPT !.text_lists =
             PutIfAny(reg.text_lists, f.elems[i].name, ListVals(f, i))]
    ELSE [reg EXCEPT !.ship_defs =
             DictPut(reg.ship_defs, f.elems[i].name,
                     ShipDefs(DictGetOr(reg.ship_defs, f.elems[i].name, <<>>),
                              f, fi, ShipSubs(f, i)))]

\* the eventList / textList / ship pass over root.iter()
RECURSIVE CollectLists(_, _, _, _)
CollectListsNext(reg1, f, fi, rest) ==
    IF Evaluated(reg1) THEN CollectLists(reg1, f, fi, rest) ELSE reg1
CollectLists(reg, f, fi, its) ==
    IF its = <<>> THEN reg
    ELSE CollectListsNext(CollectList(reg, f, fi, Head(its)), f, fi, Tail(its))

\* the fallback of build_registry for a file that does not parse: the ship
\* blocks a regular expression finds, with their load references
RECURSIVE FallbackShips(_, _)
FallbackShipsNext(defs1, rest) ==
    IF Evaluated(defs1) THEN FallbackShips(defs1, rest) ELSE defs1
FallbackShips(ship_defs, ships) ==
    IF ships = <<>> THEN ship_defs
    ELSE FallbackShipsNext(
            DictPut(ship_defs, Head(ships).name,
                    DictPut(DictGetOr(ship_defs, Head(ships).name, <<>>),
                            Head(ships).kind,
                            [load |-> Head(ships).load, el |-> <<>>])),
            Tail(ships))

\* build_registry on one file
BuildFile(reg, f, fi) ==
    IF f.parsed
    THEN CollectLists(
            [events |-> PutEvents(reg.events, f, fi, _iter_named_events_etree(f)),
             event_ancestors |-> VisitAnc(reg.event_ancestors, f, 1, <<>>),
             event_lists |-> reg.event_lists,
             text_lists |-> reg.text_lists,
             ship_defs |-> reg.ship_defs],
            f, fi, ListElems(f))
    ELSE [reg EXCEPT !.ship_defs = FallbackShips(reg.ship_defs, f.rawShips)]

\* the loop of build_registry over the files
RECURSIVE BuildFiles(_, _, _)
BuildFilesNext(reg1, files, fi) ==
    IF Evaluated(reg1) THEN BuildFiles(reg1, files, fi) ELSE reg1
BuildFiles(reg, files, fi) ==
    IF fi > Len(files) THEN reg
    ELSE BuildFilesNext(BuildFile(reg, files[fi], fi), files, fi + 1)

\* build_registry(data_dir)
build_registry(corpus) ==
    BuildFiles([events |-> <<>>, event_lists |-> <<>>, text_lists |-> <<>>,
                ship_defs |-> <<>>, event_ancestors |-> <<>>],
               SortFiles(corpus), 1)

(***************************************************************************)
(* index_event_nodes: every <event> element, named or not, and one         *)
(* synthetic node per ship outcome branch that has text.                   *)
(***************************************************************************)
\* _text_for_textlist
_text_for_textlist(reg, name) ==
    JoinSp(NonEmptyParts(DictGetOr(reg.text_lists, name, <<>>)))

\* the text of the text list each of the elements its loads
TextListTexts(reg, f, its) ==
    [k \in 1..Len(its) |-> _text_for_textlist(reg, f.elems[its[k]].load)]

\* _gather_textlist_in_subtree
_gather_textlist_in_subtree(reg, f, i) ==
    JoinParts(TextListTexts(reg, f,
        SelectSeq(Iter(f, i),
                  LAMBDA j : f.elems[j].tag = "text" /\ f.elems[j].load # <<>>)))

\* re.sub(r"\s+", " ", (base + " " + extra).strip())
NodeText(reg, f, i) ==
    CollapseWs(Strip(_gather_subtree_text(f, i) \o <<" ">>
                     \o _gather_textlist_in_subtree(reg, f, i)))

ship_branch_tags == {"surrender", "destroyed", "deadCrew", "escape", "gotaway"}

\* EventNodeEntry(uid, name, file, el, text, text_nows, ancestors)
EventNodeEntry(uid, name, fi, i, text, ancestors) ==
    [uid |-> uid, name |-> name, file |-> fi, el |-> <<fi, i>>, text |-> text,
     text_nows |-> RemoveWs(text), ancestors |-> ancestors]

\* the state of the walk: entries, uid_counter, ship_uid_counter, stack
\* an <event> is entered: its node is appended and its uid pushed
EnterEvent(st, fi, i, name, text) ==
    [entries |-> Append(st.entries,
                    EventNodeEntry(<<"EN", st.uid_counter + 1>>, name, fi, i, text,
                                   st.stack)),
     uid_counter |-> st.uid_counter + 1,
     ship_uid_counter |-> st.ship_uid_counter,
     stack |-> Append(st.stack, <<"EN", st.uid_counter + 1>>)]

\* a variant of the walk that leaves the stack as it is
KeepOnStack(st) == st

\* stack.pop()
LeaveEvent(st) ==
    [entries |-> st.entries, uid_counter |-> st.uid_counter,
     ship_uid_counter |-> st.ship_uid_counter,
     stack |-> SubSeq(st.stack, 1, Len(st.stack) - 1)]

\* a variant that numbers the branches of ship blocks as events are
AddBranchAsEvent(st, fi, b, name, branch_text) ==
    IF branch_text = <<>> THEN st
    ELSE [entries |-> Append(st.entries,
                        EventNodeEntry(<<"EN", st.ship_uid_counter + 1>>, name, fi, b,
                                       branch_text, st.stack)),
          uid_counter |-> st.uid_counter,
          ship_uid_counter |-> st.ship_uid_counter + 1,
          stack |-> st.stack]

\* a branch of a ship block with its text: a synthetic node unless empty
AddBranch(st, fi, b, name, branch_text) ==
    IF branch_text = <<>> THEN st
    ELSE [entries |-> Append(st.entries,
                        EventNodeEntry(<<"SH", st.ship_uid_counter + 1>>, name, fi, b,
                                       branch_text, st.stack)),
          uid_counter |-> st.uid_counter,
          ship_uid_counter |-> st.ship_uid_counter + 1,
          stack |-> st.stack]

\* one child of a ship block
ShipBranch(st, reg, f, fi, ship_name, b) ==
    IF f.elems[b].tag \notin ship_branch_tags THEN st
    ELSE AddBranch(st, fi, b, ship_name \o <<":", f.elems[b].tag>>, NodeText(reg, f, b))

\* the loop over the children of a ship block
RECURSIVE ShipBranches(_, _, _, _, _, _)
ShipBranchesNext(st1, reg, f, fi, ship_name, rest) ==
    IF Evaluated(st1) THEN ShipBranches(st1, reg, f, fi, ship_name, rest) ELSE st1
ShipBranches(st, reg, f, fi, ship_name, kids) ==
    IF kids = <<>> THEN st
    ELSE ShipBranchesNext(ShipBranch(st, reg, f, fi, ship_name, Head(kids)),
                          reg, f, fi, ship_name, Tail(kids))

\* node.attrib.get('load') or node.attrib.get('name') or "(ship)"
ShipName(e) == OrElse(e.load, OrElse(e.name, <<"(ship)">>))

\* visit(node) of index_event_nodes
RECURSIVE VisitNode(_, _, _, _, _)
RECURSIVE VisitNodes(_, _, _, _, _)
VisitNodesNext(st1, reg, f, fi, rest) ==
    IF Evaluated(st1) THEN VisitNodes(st1, reg, f, fi, rest) ELSE st1
VisitNodes(st, reg, f, fi, kids) ==
    IF kids = <<>> THEN st
    ELSE VisitNodesNext(VisitNode(st, reg, f, fi, Head(kids)), reg, f, fi, Tail(kids))
\* the ship branches of the node, if it is a ship block, then its children
VisitBelow(st, reg, f, fi, i) ==
    VisitNodesNext(IF f.elems[i].tag = "ship"
                   THEN ShipBranches(st, reg, f, fi, ShipName(f.elems[i]),
                                     Children(f, i))
                   ELSE st,
                   reg, f, fi, Children(f, i))
VisitNode(st, reg, f, fi, i) ==
    IF f.elems[i].tag = "event"
    THEN LeaveEvent(VisitBelow(EnterEvent(st, fi, i, f.elems[i].name,
                                          NodeText(reg, f, i)),
                               reg, f, fi, i))
    ELSE VisitBelow(st, reg, f, fi, i)

\* stack = [] for the next file
FreshStack(st) ==
    [entries |-> st.entries, uid_counter |-> st.uid_counter,
     ship_uid_counter |-> st.ship_uid_counter, stack |-> <<>>]

\* the loop of index_event_nodes over the files
RECURSIVE IndexFiles(_, _, _, _)
IndexFilesNext(st1, reg, files, fi) ==
    IF Evaluated(st1) THEN IndexFiles(st1, reg, files, fi) ELSE st1
IndexFiles(st, reg, files, fi) ==
    IF fi > Len(files) THEN st
    ELSE IndexFilesNext(IF files[fi].parsed
                        THEN VisitNode(FreshStack(st), reg, files[fi], fi, 1)
                        ELSE st,
                        reg, files, fi + 1)

\* index_event_nodes(data_dir, reg)
index_event_nodes(corpus, reg) ==
    IndexFiles([entries |-> <<>>, uid_counter |-> 0, ship_uid_counter |-> 0,
                stack |-> <<>>],
               reg, SortFiles(corpus), 1).entries

(***************************************************************************)
(* index_events_expanded: one entry per named event that has text, its     *)
(* text merged with the text its load references reach; expand_cache is    *)
(* threaded through the recursion as the code's dict is.  The expanders    *)
(* return [out, cache].                                                    *)
(***************************************************************************)
TagLower(tag) ==
    CASE tag = "loadEvent" -> "loadevent"
      [] tag = "loadEventList" -> "loadeventlist"
      [] OTHER -> tag

COMBAT_CHECK == <<"COMBAT_CHECK">>

\* EventEntry(name, file, text, text_nows)
EventEntry(name, fi, text) ==
    [name |-> name, file |-> fi, text |-> text, text_nows |-> RemoveWs(text)]

SubtreeText(files, el) == _gather_subtree_text(files[el[1]], el[2])

\* expand_cache[key] = out; return out
Cached(key, out, cache) == [out |-> out, cache |-> DictPut(cache, key, out)]

\* the reference a loadEvent / loadEventList element makes by its text
RefByText(reg, tag_lower, name_txt) ==
    IF tag_lower = "loadevent"
    THEN IF name_txt = <<>> \/ name_txt = COMBAT_CHECK THEN <<>>
         ELSE IF DictHas(reg.events, name_txt) THEN <<"E", name_txt>>
         ELSE IF DictHas(reg.event_lists, name_txt) THEN <<"L", name_txt>>
         ELSE <<>>
    ELSE IF tag_lower = "loadeventlist" /\ name_txt # <<>> THEN <<"L", name_txt>>
    ELSE <<>>

\* the reference an element of the tree makes, as the loop body of
\* _expand_loads_in_tree decides it: <<"T", name>>, <<"E", name>>,
\* <<"L", name>>, or <<>> for none
RefOf(reg, node) ==
    IF node.tag = "text" /\ node.load # <<>> THEN <<"T", node.load>>
    ELSE IF node.load = COMBAT_CHECK THEN <<>>
    ELSE IF node.load # <<>> /\ DictHas(reg.events, node.load) THEN <<"E", node.load>>
    ELSE IF node.load # <<>> /\ DictHas(reg.event_lists, node.load)
    THEN <<"L", node.load>>
    ELSE RefByText(reg, TagLower(node.tag), Strip(node.text))

\* the elements of a subtree that make a reference, in document order
RefElems(reg, f, i) == SelectSeq(Iter(f, i), LAMBDA j : RefOf(reg, f.elems[j]) # <<>>)

\* parts.append(...) for a reference not yet in seen_refs
RefExpanded(st, ref, r) ==
    IF Evaluated(r)
    THEN [parts |-> Append(st.parts, r.out), seen |-> st.seen \cup {ref},
          cache |-> r.cache]
    ELSE st

EventExpanded(key, txt, more) ==
    IF Evaluated(more) THEN Cached(key, Strip(txt \o <<" ">> \o more.out), more.cache)
    ELSE more

ItemExpanded(parts, txt, more) ==
    IF Evaluated(more) THEN [parts |-> parts \o <<txt, more.out>>, cache |-> more.cache]
    ELSE more

ListExpanded(key, st) ==
    IF Evaluated(st) THEN Cached(key, JoinParts(st.parts), st.cache) ELSE st

LoadsExpanded(st) ==
    IF Evaluated(st) THEN [out |-> JoinParts(st.parts), cache |-> st.cache] ELSE st

RECURSIVE _expand_event_by_name(_, _, _, _, _, _, _)
RECURSIVE _expand_eventlist_by_name(_, _, _, _, _, _, _)
RECURSIVE _expand_loads_in_tree(_, _, _, _, _, _, _)
RECURSIVE ExpandNodes(_, _, _, _, _, _, _, _)
RECURSIVE ExpandItems(_, _, _, _, _, _, _)

_expand_event_by_name(reg, files, name, depth, visiting, cache, maxd) ==
    IF depth >= maxd \/ <<"E", name>> \in visiting THEN [out |-> <<>>, cache |-> cache]
    ELSE IF DictHas(cache, <<"E", name>>)
    THEN [out |-> DictGet(cache, <<"E", name>>), cache |-> cache]
    ELSE IF ~DictHas(reg.events, name) THEN [out |-> <<>>, cache |-> cache]
    ELSE EventExpanded(<<"E", name>>, SubtreeText(files, DictGet(reg.events, name)),
            _expand_loads_in_tree(reg, files, DictGet(reg.events, name), depth + 1,
                                  visiting \cup {<<"E", name>>}, cache, maxd))

\* the loop over the items of an event list; st = [parts, cache]
ExpandItemsNext(reg, files, rest, depth, visiting, st1, maxd) ==
    IF Evaluated(st1) THEN ExpandItems(reg, files, rest, depth, visiting, st1, maxd)
    ELSE st1
ExpandItems(reg, files, items, depth, visiting, st, maxd) ==
    IF items = <<>> THEN st
    ELSE ExpandItemsNext(reg, files, Tail(items), depth, visiting,
            ItemExpanded(st.parts, SubtreeText(files, Head(items)),
                _expand_loads_in_tree(reg, files, Head(items), depth + 1, visiting,
                                      st.cache, maxd)),
            maxd)

_expand_eventlist_by_name(reg, files, name, depth, visiting, cache, maxd) ==
    IF depth >= maxd \/ <<"L", name>> \in visiting THEN [out |-> <<>>, cache |-> cache]
    ELSE IF DictHas(cache, <<"L", name>>)
    THEN [out |-> DictGet(cache, <<"L", name>>), cache |-> cache]
    ELSE IF ~DictHas(reg.event_lists, name) THEN [out |-> <<>>, cache |-> cache]
    ELSE ListExpanded(<<"L", name>>,
            ExpandItems(reg, files, DictGet(reg.event_lists, name), depth,
                        visiting \cup {<<"L", name>>},
                        [parts |-> <<>>, cache |-> cache], maxd))

\* one reference met in the tree; st = [parts, seen, cache]
ExpandRef(reg, files, ref, depth, visiting, st, maxd) ==
    IF ref \in st.seen THEN st
    ELSE IF ref[1] = "T"
    THEN [parts |-> Append(st.parts, _text_for_textlist(reg, ref[2])),
          seen |-> st.seen \cup {ref}, cache |-> st.cache]
    ELSE RefExpanded(st, ref,
            IF ref[1] = "E"
            THEN _expand_event_by_name(reg, files, ref[2], depth + 1, visiting,
                                       st.cache, maxd)
            ELSE _expand_eventlist_by_name(reg, files, ref[2], depth + 1, visiting,
                                           st.cache, maxd))

\* the loop of _expand_loads_in_tree over root_el.iter()
ExpandNodesNext(reg, files, fi, rest, depth, visiting, st1, maxd) ==
    IF Evaluated(st1) THEN ExpandNodes(reg, files, fi, rest, depth, visiting, st1, maxd)
    ELSE st1
ExpandNodes(reg, files, fi, its, depth, visiting, st, maxd) ==
    IF its = <<>> THEN st
    ELSE ExpandNodesNext(reg, files, fi, Tail(its), depth, visiting,
            ExpandRef(reg, files, RefOf(reg, files[fi].elems[Head(its)]), depth,
                      visiting, st, maxd),
            maxd)

_expand_loads_in_tree(reg, files, el, depth, visiting, cache, maxd) ==
    IF depth >= maxd THEN [out |-> <<>>, cache |-> cache]
    ELSE LoadsExpanded(
            ExpandNodes(reg, files, el[1], RefElems(reg, files[el[1]], el[2]), depth,
                        visiting, [parts |-> <<>>, seen |-> {}, cache |-> cache], maxd))

\* "if text: entries.append(EventEntry(...))"
AppendEntry(entries, name, fi, text) ==
    IF text # <<>> THEN Append(entries, EventEntry(name, fi, text)) ELSE entries

EntryAdded(entries, name, fi, base, extra) ==
    IF Evaluated(extra)
    THEN [entries |-> AppendEntry(entries, name, fi,
                                  Strip(base \o <<" ">> \o extra.out)),
          cache |-> extra.cache]
    ELSE extra

\* the loop over reg.events.items(); st = [entries, cache]
RECURSIVE EntriesOfEvents(_, _, _, _, _)
EntriesOfEventsNext(st1, reg, files, k, maxd) ==
    IF Evaluated(st1) THEN EntriesOfEvents(st1, reg, files, k, maxd) ELSE st1
EntriesOfEvents(st, reg, files, k, maxd) ==
    IF k > Len(reg.events) THEN st
    ELSE EntriesOfEventsNext(
            EntryAdded(st.entries, reg.events[k][1], reg.events[k][2][1],
                       SubtreeText(files, reg.events[k][2]),
                       _expand_loads_in_tree(reg, files, reg.events[k][2], 0, {},
                                             st.cache, maxd)),
            reg, files, k + 1, maxd)

BlockTexts(named) ==
    [k \in 1..Len(named) |->
        [name |-> named[k].name, text |-> Strip(CollapseWs(named[k].body))]]

\* _fallback_parse_events_text: the (name, text) pairs of the named event
\* blocks the regular expression finds in a file
_fallback_parse_events_text(f) ==
    BlockTexts(SelectSeq(f.rawEvents, LAMBDA b : b.name # <<>>))

EntriesOfBlocks(blocks, fi) ==
    [k \in 1..Len(blocks) |-> EventEntry(blocks[k].name, fi, blocks[k].text)]

\* the fallback loop of index_events_expanded, file by file: the blocks
\* with text whose name the registry does not know
RECURSIVE FallbackEntries(_, _, _)
FallbackEntries(known, files, fi) ==
    IF fi > Len(files) THEN <<>>
    ELSE EntriesOfBlocks(SelectSeq(_fallback_parse_events_text(files[fi]),
                                   LAMBDA b : b.text # <<>> /\ b.name \notin known),
                         fi)
         \o FallbackEntries(known, files, fi + 1)

IndexEntries(files, reg, maxd) ==
    EntriesOfEvents([entries |-> <<>>, cache |-> <<>>], reg, files, 1, maxd).entries
        \o FallbackEntries(DictKeys(reg.events), files, 1)

\* index_events_expanded(data_dir, reg, max_expand_depth=maxd)
index_events_expanded(corpus, reg, maxd) == IndexEntries(SortFiles(corpus), reg, maxd)

(***************************************************************************)
(* The query engine (cli.py).                                              *)
(***************************************************************************)
\* the test of _search and _search_nodes on one entry
Hit(e, q, q_nows) ==
    Contains(e.text, q) \/ (q_nows # <<>> /\ Contains(e.text_nows, q_nows))

Hits(entries, q) == SelectSeq(entries, LAMBDA e : Hit(e, q, RemoveWs(q)))

\* the elements of s whose key no earlier element has
FirstOfKey(s, keys) ==
    Pick(s, SelectSeq(Indices(s), LAMBDA k : \A j \in 1..(k - 1) : keys[j] # keys[k]))

NamesOf(entries) == [k \in 1..Len(entries) |-> entries[k].name]

UidsOf(nodes) == [k \in 1..Len(nodes) |-> nodes[k].uid]

Unique(names) == FirstOfKey(names, names)

UniqueNodes(nodes) == FirstOfKey(nodes, UidsOf(nodes))

\* _search after q = query.strip()
SearchNames(entries, q) == IF q = <<>> THEN <<>> ELSE Unique(NamesOf(Hits(entries, q)))

\* _search: the names of the entries whose text holds the query, each once
_search(entries, query) == SearchNames(entries, Strip(query))

\* _minimal_events: a name that is an ancestor of another name is dropped
_minimal_events(names, reg) ==
    SelectSeq(names,
              LAMBDA n : ~\E k \in 1..Len(names) :
                            n \in Range(DictGetOr(reg.event_ancestors, names[k], <<>>)))

\* _search_nodes after q = query.strip()
SearchNodes(nodes, q) == IF q = <<>> THEN <<>> ELSE UniqueNodes(Hits(nodes, q))

\* _search_nodes: the nodes whose text holds the query, each uid once
_search_nodes(nodes, query) == SearchNodes(nodes, Strip(query))

\* a variant of the pruning that keeps every node
KeepAllNodes(nodes) == nodes

\* a variant of the pruning that also drops every node that has an ancestor
\* among the nodes
DropRelatedNodes(nodes) ==
    SelectSeq(nodes,
              LAMBDA n : /\ ~\E k \in 1..Len(nodes) : n.uid \in Range(nodes[k].ancestors)
                         /\ ~\E k \in 1..Len(nodes) : nodes[k].uid \in Range(n.ancestors))

\* _minimal_event_nodes: a node that is an ancestor of another is dropped
_minimal_event_nodes(nodes) ==
    SelectSeq(nodes,
              LAMBDA n : ~\E k \in 1..Len(nodes) : n.uid \in Range(nodes[k].ancestors))

\* uid_lookup.get(uid).name: a later node of the same uid wins
UidName(nodes, uid) ==
    IF \E k \in 1..Len(nodes) : nodes[k].uid = uid
    THEN nodes[CHOOSE k \in 1..Len(nodes) :
                  /\ nodes[k].uid = uid
                  /\ \A j \in (k + 1)..Len(nodes) : nodes[j].uid # uid].name
    ELSE <<>>

\* the loop of _nearest_named_ancestor over reversed(ancestors)
RECURSIVE NearestNamed(_, _, _)
NearestNamed(all_nodes, ancestors, k) ==
    IF k = 0 THEN <<>>
    ELSE OrElse(UidName(all_nodes, ancestors[k]),
                NearestNamed(all_nodes, ancestors, k - 1))

\* _nearest_named_ancestor: <<>> when there is none
_nearest_named_ancestor(node, all_nodes) ==
    NearestNamed(all_nodes, node.ancestors, Len(node.ancestors))

LabelKeyOf(node, parent_name) ==
    IF node.name # <<>> THEN <<"named", node.name>>
    ELSE IF parent_name # <<>> THEN <<"parent", parent_name>>
    ELSE <<"orphan", node.uid>>

\* the key under which _format_node_match_labels groups a node
LabelKey(node, all_nodes) == LabelKeyOf(node, _nearest_named_ancestor(node, all_nodes))

\* a label is the record its text is formatted from
Label(keys, key) ==
    [category |-> key[1], key |-> key[2],
     count |-> Cardinality({k \in 1..Len(keys) : keys[k] = key})]

LabelsOf(keys, order) == [i \in 1..Len(order) |-> Label(keys, order[i])]

LabelsOfKeys(keys) == LabelsOf(keys, Unique(keys))

\* _format_node_match_labels: one label per key, in first-seen order, with
\* the number of nodes it stands for
_format_node_match_labels(nodes, all_nodes) ==
    LabelsOfKeys([k \in 1..Len(nodes) |-> LabelKey(nodes[k], all_nodes)])

\* the least of a set of indices, 0 when there is none
FirstIndex(hits) == IF hits = {} THEN 0 ELSE CHOOSE k \in hits : \A j \in hits : k <= j

\* e.name == q or e.name.lower() == ql
IdMatch(name, q, ql) == name = q \/ Lower(name) = ql

\* a variant of the exact-id loop that looks for an exact match first and
\* for a match in lower case only when there is none
ExactFirst(entries, q) ==
    IF \E k \in 1..Len(entries) : entries[k].name = q
    THEN FirstIndex({k \in 1..Len(entries) : entries[k].name = q})
    ELSE FirstIndex({k \in 1..Len(entries) : Lower(entries[k].name) = Lower(q)})

\* the exact-id loop over the entries: the index of the first entry whose
\* name is the query or equals it in lower case, 0 when there is none
entry_by_id(entries, q) ==
    FirstIndex({k \in 1..Len(entries) : IdMatch(entries[k].name, q, Lower(q))})

\* among the candidates, the first with the most children; 0 without any
MostChildren(f, cands) ==
    IF cands = <<>> THEN 0
    ELSE cands[CHOOSE k \in 1..Len(cands) :
           /\ \A j \in 1..Len(cands) :
                 Len(Children(f, cands[j])) <= Len(Children(f, cands[k]))
           /\ \A j \in 1..(k - 1) :
                 Len(Children(f, cands[j])) < Len(Children(f, cands[k]))]

\* the element _expand_entry and show_single_event_detail expand: among the
\* named events of the file with the entry's name, the first one with the
\* most children; 0 when the file does not parse
TargetOf(f, name) ==
    IF f.parsed
    THEN MostChildren(f, SelectSeq(_iter_named_events_etree(f),
                                   LAMBDA i : f.elems[i].name = name))
    ELSE 0

TargetEventEl(files, entry) == TargetOf(files[entry.file], entry.name)

(***************************************************************************)
(* The results of search_once.  An expand result carries the name and, in  *)
(* place of the rendered text, what the text is rendered from: the path    *)
(* that produced it (via) and the element expanded (target).               *)
(***************************************************************************)
Result(kind, name, names, match_count, note, via, target) ==
    [kind |-> kind, name |-> name, names |-> names, match_count |-> match_count,
     note |-> note, via |-> via, target |-> target]

\* no result yet
NoResult == Result("none", <<>>, <<>>, 0, "", "", <<>>)

EmptyQueryResult == Result("empty_query", <<>>, <<>>, 0, "", "", <<>>)

NotFoundResult == Result("not_found", <<>>, <<>>, 0, "", "", <<>>)

\* raise ValueError
ValueErrorResult == Result("ValueError", <<>>, <<>>, 0, "", "", <<>>)

few_note == "few matches, their ids follow"

\* the note of a names result: set for 2 to 5 matches, None otherwise
NamesNote(n) == IF 1 < n /\ n <= 5 THEN few_note ELSE ""

NamesResult(names, n) == Result("names", <<>>, names, n, NamesNote(n), "", <<>>)

\* _expand_entry
_expand_entry(files, entry) ==
    Result("expand", entry.name, <<>>, 0, "", "entry_by_id",
           <<entry.file, TargetEventEl(files, entry)>>)

\* the single node hit, summarized directly
ExpandNode(n) ==
    Result("expand", OrElse(n.name, <<"(anonymous)">>), <<>>, 0, "", "node", n.el)

\* show_single_event_detail on next(e for e in entries if e.name == name)
ExpandNamed(files, entries, name) ==
    Result("expand", name, <<>>, 0, "", "show_single_event_detail",
           <<entries[FirstIndex({k \in 1..Len(entries) : entries[k].name = name})].file,
             TargetEventEl(files,
                entries[FirstIndex({k \in 1..Len(entries) : entries[k].name = name})])>>)

\* mode_normalized = (mode or "auto").strip().lower()
mode_normalized(mode) == Lower(Strip(OrElse(mode, <<"a", "u", "t", "o">>)))

ValidModes == {<<"a", "u", "t", "o">>, <<"t", "e", "x", "t">>, <<"i", "d">>}

\* a variant of the checks that validates the mode before the query
ValidateModeFirst(query, mode) ==
    IF mode_normalized(mode) \notin ValidModes THEN "ValueError"
    ELSE IF Strip(query) = <<>> THEN "empty_query"
    ELSE "ok"

\* the checks search_once makes before it touches anything (lines 480-486)
Validate(query, mode) ==
    IF Strip(query) = <<>> THEN "empty_query"
    ELSE IF mode_normalized(mode) \notin ValidModes THEN "ValueError"
    ELSE "ok"

\* the exact-id step with the index k of the matching entry
IdResult(files, entries, k, mode_n) ==
    IF mode_n # <<"t", "e", "x", "t">> /\ k # 0 THEN _expand_entry(files, entries[k])
    ELSE IF mode_n = <<"i", "d">> THEN NotFoundResult
    ELSE NoResult

\* the exact-id step of search_once (lines 536-552): a result, or NoResult
\* when the search goes on to the text step
IdStep(files, entries, q, mode) ==
    IdResult(files, entries, entry_by_id(entries, q), mode_normalized(mode))

\* lines 602-618: the names the entry search finds
ByNames(files, entries, names) ==
    IF names = <<>> THEN NotFoundResult
    ELSE IF Len(names) = 1 THEN ExpandNamed(files, entries, names[1])
    ELSE NamesResult(names, Len(names))

\* lines 562-604 with the pruned node hits
ByNodes(files, reg, entries, nodes, q, hit_nodes) ==
    IF Len(hit_nodes) > 1
    THEN NamesResult(_format_node_match_labels(hit_nodes, nodes), Len(hit_nodes))
    ELSE IF Len(hit_nodes) = 1 THEN ExpandNode(hit_nodes[1])
    ELSE ByNames(files, entries, _minimal_events(_search(entries, q), reg))

\* the text step of search_once (lines 559-618)
TextStep(files, reg, entries, nodes, q) ==
    ByNodes(files, reg, entries, nodes, q, _minimal_event_nodes(_search_nodes(nodes, q)))

\* the exact-id result, or else the text step
OrText(byid, files, reg, entries, corpus, q) ==
    IF byid # NoResult THEN byid
    ELSE TextStep(files, reg, entries, index_event_nodes(corpus, reg), q)

SearchIn(files, reg, entries, corpus, q, mode) ==
    OrText(IdStep(files, entries, q, mode), files, reg, entries, corpus, q)

SearchWith(files, reg, corpus, q, max_depth, mode) ==
    SearchIn(files, reg, index_events_expanded(corpus, reg, max_depth), corpus, q, mode)

\* search_once on a corpus, every index built afresh
search_once(query, corpus, max_depth, mode) ==
    IF Validate(query, mode) = "empty_query" THEN EmptyQueryResult
    ELSE IF Validate(query, mode) = "ValueError" THEN ValueErrorResult
    ELSE SearchWith(SortFiles(corpus), build_registry(corpus), corpus, Strip(query),
                    max_depth, mode)

\* what run_interactive prints for n > 1 pruned node hits (lines 243-251)
run_interactive_multi(n) == IF n > 5 THEN "too_many" ELSE "labels"

(***************************************************************************)
(* The corpora the searches run on.                                        *)
(***************************************************************************)
XmlFile(path, elems) ==
    [path |-> path, parsed |-> TRUE, elems |-> elems, rawEvents |-> <<>>,
     rawShips |-> <<>>]

\* a file the XML parser rejects: only what the regular expressions find
BrokenFile(path, rawEvents, rawShips) ==
    [path |-> path, parsed |-> FALSE, elems |-> <<>>, rawEvents |-> rawEvents,
     rawShips |-> rawShips]

\* names that differ only in case, an anonymous event nested in a named one,
\* and a named event without any text
Corpus1 ==
    << XmlFile(<< <<"e", "1">> >>,
        << El("FTL", <<>>, <<>>, <<>>, 0),
           El("event", <<"A">>, <<>>, <<>>, 1),
           El("text", <<>>, <<>>, <<"a", " ", "b">>, 2),
           El("choice", <<>>, <<>>, <<>>, 2),
           El("text", <<>>, <<>>, <<"b">>, 4),
           El("event", <<>>, <<>>, <<>>, 4),
           El("text", <<>>, <<>>, <<" ", "B", " ", " ", "a">>, 6),
           El("event", <<"a">>, <<>>, <<>>, 1),
           El("text", <<>>, <<>>, <<"b">>, 8),
           El("event", <<"B">>, <<>>, <<>>, 1),
           El("ship", <<>>, <<"S">>, <<>>, 10) >>) >>

\* many matches: events and lists that load each other, a text list, and a
\* ship block with outcome branches
Corpus2 ==
    << XmlFile(<< <<"e", "2">> >>,
        << El("FTL", <<>>, <<>>, <<>>, 0),
           El("event", <<"A">>, <<>>, <<>>, 1),
           El("text", <<>>, <<>>, <<"a">>, 2),
           El("choice", <<>>, <<>>, <<>>, 2),
           El("event", <<>>, <<"B">>, <<>>, 4),
           El("event", <<"B">>, <<>>, <<>>, 1),
           El("text", <<>>, <<>>, <<"b", "a">>, 6),
           El("loadEvent", <<>>, <<>>, <<"L">>, 6),
           El("eventList", <<"L">>, <<>>, <<>>, 1),
           El("event", <<>>, <<>>, <<>>, 9),
           El("text", <<>>, <<>>, <<"a", "b">>, 10),
           El("event", <<>>, <<"A">>, <<>>, 9) >>),
       XmlFile(<< <<"e", "3">> >>,
        << El("FTL", <<>>, <<>>, <<>>, 0),
           El("event", <<>>, <<>>, <<>>, 1),
           El("text", <<>>, <<"T">>, <<>>, 2),
           El("textList", <<"T">>, <<>>, <<>>, 1),
           El("text", <<>>, <<>>, <<"a", " ", "B">>, 4),
           El("event", <<"b">>, <<>>, <<>>, 1),
           El("text", <<>>, <<>>, <<"B">>, 6),
           El("ship", <<"S">>, <<>>, <<>>, 6),
           El("destroyed", <<>>, <<>>, <<>>, 8),
           El("text", <<>>, <<>>, <<"a", "a">>, 9),
           El("event", <<>>, <<>>, <<>>, 9),
           El("text", <<>>, <<>>, <<"a", "B">>, 11),
           El("event", <<>>, <<>>, <<>>, 11),
           El("escape", <<>>, <<"B">>, <<>>, 8) >>) >>

\* a localised file that overrides an event, and a file that does not parse
Corpus3 ==
    << XmlFile(<< <<"c", "n">>, <<"e", "1">> >>,
        << El("FTL", <<>>, <<>>, <<>>, 0),
           El("event", <<"A">>, <<>>, <<>>, 1),
           El("text", <<>>, <<>>, <<"B", "b">>, 2) >>),
       XmlFile(<< <<"e", "1">> >>,
        << El("FTL", <<>>, <<>>, <<>>, 0),
           El("event", <<"A">>, <<>>, <<>>, 1),
           El("text", <<>>, <<>>, <<"a">>, 2),
           El("event", <<"a", "b">>, <<>>, <<>>, 1),
           El("text", <<>>, <<>>, <<"a", " ", "b">>, 4) >>),
       BrokenFile(<< <<"e", "2">> >>,
        << [name |-> <<"b">>, body |-> <<" ", "a", " ", " ", "a", " ">>],
           [name |-> <<"A">>, body |-> <<"b">>],
           [name |-> <<"a", "B">>, body |-> <<"A">>],
           [name |-> <<>>, body |-> <<"a">>] >>,
        << [name |-> <<"S">>, kind |-> "destroyed", load |-> <<"A">>] >>) >>

\* the load that makes a choice invalid
OPTION_INVALID == <<"OPTION_INVALID">>

\* a <ship> element with its hostile attribute
Ship(name, load, hostile, parent) ==
    [tag |-> "ship", name |-> name, load |-> load, text |-> <<>>,
     parent |-> parent, hostile |-> hostile]

\* references that lead back: an event that loads itself, an event and a
\* list that load each other, a list whose item loads the list again, a chain
\* of lists, and a list loaded twice
Corpus4 ==
    << XmlFile(<< <<"c", "1">> >>,
        << El("FTL", <<>>, <<>>, <<>>, 0),
           El("event", <<"A">>, <<>>, <<>>, 1),
           El("text", <<>>, <<>>, <<"a">>, 2),
           El("choice", <<>>, <<>>, <<>>, 2),
           El("text", <<>>, <<>>, <<"g">>, 4),
           El("loadEvent", <<>>, <<>>, <<"A">>, 4),
           El("event", <<"B">>, <<>>, <<>>, 1),
           El("choice", <<>>, <<>>, <<>>, 7),
           El("event", <<>>, <<"L", "B">>, <<>>, 8),
           El("eventList", <<"L", "B">>, <<>>, <<>>, 1),
           El("event", <<>>, <<"B">>, <<>>, 10) >>),
       XmlFile(<< <<"c", "2">> >>,
        << El("FTL", <<>>, <<>>, <<>>, 0),
           El("event", <<"C">>, <<>>, <<>>, 1),
           El("choice", <<>>, <<>>, <<>>, 2),
           El("loadEventList", <<>>, <<>>, <<"L", "C">>, 3),
           El("eventList", <<"L", "C">>, <<>>, <<>>, 1),
           El("event", <<>>, <<>>, <<>>, 5),
           El("choice", <<>>, <<>>, <<>>, 6),
           El("loadEventList", <<>>, <<>>, <<"L", "C">>, 7),
           El("event", <<"D">>, <<>>, <<>>, 1),
           El("choice", <<>>, <<>>, <<>>, 9),
           El("event", <<>>, <<"L", "1">>, <<>>, 10),
           El("eventList", <<"L", "1">>, <<>>, <<>>, 1),
           El("event", <<>>, <<"L", "2">>, <<>>, 12) >>),
       XmlFile(<< <<"c", "3">> >>,
        << El("FTL", <<>>, <<>>, <<>>, 0),
           El("eventList", <<"L", "2">>, <<>>, <<>>, 1),
           El("event", <<>>, <<>>, <<>>, 2),
           El("text", <<>>, <<>>, <<"x">>, 3),
           El("event", <<"F">>, <<>>, <<>>, 1),
           El("choice", <<>>, <<>>, <<>>, 5),
           El("loadEventList", <<>>, <<>>, <<"L", "F">>, 6),
           El("choice", <<>>, <<>>, <<>>, 5),
           El("loadEventList", <<>>, <<>>, <<"L", "F">>, 8),
           El("eventList", <<"L", "F">>, <<>>, <<>>, 1),
           El("event", <<>>, <<>>, <<>>, 10),
           El("text", <<>>, <<>>, <<"f">>, 11),
           El("event", <<"G">>, <<>>, <<>>, 1),
           El("choice", <<>>, <<>>, <<>>, 13),
           El("eventList", <<>>, <<"L", "F">>, <<>>, 14),
           El("loadEvent", <<>>, <<>>, <<"A">>, 14),
           El("loadEvent", <<>>, <<>>, <<"A">>, 14) >>) >>

\* a choice made invalid by OPTION_INVALID, names that are in no table in
\* each form of reference, COMBAT_CHECK in each form of reference, and a
\* hostile ship with inline and defined outcomes
Corpus5 ==
    << XmlFile(<< <<"d", "1">> >>,
        << El("FTL", <<>>, <<>>, <<>>, 0),
           El("event", <<"H">>, <<>>, <<>>, 1),
           El("text", <<>>, <<>>, <<"h">>, 2),
           El("weapon", <<"W">>, <<>>, <<>>, 2),
           El("choice", <<>>, <<>>, <<>>, 2),
           El("text", <<>>, <<>>, <<"o", "k">>, 5),
           El("event", <<>>, <<>>, <<>>, 5),
           El("text", <<>>, <<>>, <<"i">>, 7),
           El("choice", <<>>, <<>>, <<>>, 2),
           El("text", <<>>, <<>>, <<"n", "o">>, 9),
           El("event", <<>>, OPTION_INVALID, <<>>, 9) >>),
       XmlFile(<< <<"d", "2">> >>,
        << El("FTL", <<>>, <<>>, <<>>, 0),
           El("event", <<"U">>, <<>>, <<>>, 1),
           El("choice", <<>>, <<>>, <<>>, 2),
           El("event", <<>>, <<"N", "1">>, <<>>, 3),
           El("loadEvent", <<>>, <<>>, <<"N", "2">>, 3),
           El("eventList", <<>>, <<"N", "3">>, <<>>, 3),
           El("loadEventList", <<>>, <<>>, <<"N", "4">>, 3),
           El("event", <<>>, <<>>, <<>>, 3),
           El("text", <<>>, <<>>, <<"u">>, 8) >>),
       XmlFile(<< <<"d", "3">> >>,
        << El("FTL", <<>>, <<>>, <<>>, 0),
           El("event", <<"K">>, <<>>, <<>>, 1),
           El("choice", <<>>, <<>>, <<>>, 2),
           El("event", <<>>, COMBAT_CHECK, <<>>, 3),
           El("choice", <<>>, <<>>, <<>>, 2),
           El("loadEvent", <<>>, <<>>, COMBAT_CHECK, 5),
           Ship(<<>>, <<"S">>, <<"t", "r", "u", "e">>, 2),
           El("destroyed", <<>>, COMBAT_CHECK, <<>>, 7),
           El("deadCrew", <<>>, <<"H">>, <<>>, 7),
           El("surrender", <<>>, <<>>, <<>>, 7),
           El("text", <<>>, <<>>, <<"s">>, 10),
           Ship(<<"S">>, <<>>, <<"f", "a", "l", "s", "e">>, 1),
           El("escape", <<>>, <<"U">>, <<>>, 12) >>),
       XmlFile(<< <<"d", "4">> >>,
        << El("FTL", <<>>, <<>>, <<>>, 0),
           Ship(<<"S", "2">>, <<>>, <<"f", "a", "l", "s", "e">>, 1),
           El("destroyed", <<>>, <<"H">>, <<>>, 2),
           El("text", <<>>, <<>>, <<"z">>, 3),
           El("deadCrew", <<>>, <<"U">>, <<>>, 2),
           El("surrender", <<>>, <<>>, <<>>, 2),
           El("event", <<>>, <<>>, <<>>, 6),
           El("text", <<>>, <<>>, <<"y">>, 7) >>) >>

\* lists with repeated items: two loads of one name and an inline event,
\* three different inline events, two loads of one name, and three loads of
\* one name and an inline event
Corpus6 ==
    << XmlFile(<< <<"p", "1">> >>,
        << El("FTL", <<>>, <<>>, <<>>, 0),
           El("event", <<"P">>, <<>>, <<>>, 1),
           El("choice", <<>>, <<>>, <<>>, 2),
           El("event", <<>>, <<"P", "A">>, <<>>, 3),
           El("eventList", <<"P", "A">>, <<>>, <<>>, 1),
           El("event", <<>>, <<"Q">>, <<>>, 5),
           El("event", <<>>, <<>>, <<>>, 5),
           El("text", <<>>, <<>>, <<"x">>, 7),
           El("event", <<>>, <<"Q">>, <<>>, 5),
           El("event", <<"Q">>, <<>>, <<>>, 1),
           El("text", <<>>, <<>>, <<"q">>, 10) >>),
       XmlFile(<< <<"p", "2">> >>,
        << El("FTL", <<>>, <<>>, <<>>, 0),
           El("event", <<"R">>, <<>>, <<>>, 1),
           El("choice", <<>>, <<>>, <<>>, 2),
           El("eventList", <<>>, <<>>, <<>>, 3),
           El("event", <<>>, <<>>, <<>>, 4),
           El("text", <<>>, <<>>, <<"1">>, 5),
           El("event", <<>>, <<>>, <<>>, 4),
           El("text", <<>>, <<>>, <<"2">>, 7),
           El("event", <<>>, <<>>, <<>>, 4),
           El("text", <<>>, <<>>, <<"3">>, 9),
           El("choice", <<>>, <<>>, <<>>, 2),
           El("loadEventList", <<>>, <<>>, <<"P", "A">>, 11) >>),
       XmlFile(<< <<"p", "3">> >>,
        << El("FTL", <<>>, <<>>, <<>>, 0),
           El("event", <<"T">>, <<>>, <<>>, 1),
           El("choice", <<>>, <<>>, <<>>, 2),
           El("eventList", <<>>, <<"P", "B">>, <<>>, 3),
           El("loadEventList", <<>>, <<>>, <<"P", "D">>, 3),
           El("eventList", <<"P", "B">>, <<>>, <<>>, 1),
           El("event", <<>>, <<"Q">>, <<>>, 6),
           El("event", <<>>, <<"Q">>, <<>>, 6),
           El("eventList", <<"P", "D">>, <<>>, <<>>, 1),
           El("event", <<>>, <<"Q">>, <<>>, 9),
           El("event", <<>>, <<"Q">>, <<>>, 9),
           El("event", <<>>, <<"Q">>, <<>>, 9),
           El("event", <<>>, <<>>, <<>>, 9) >>) >>

\* an event whose choice text holds the word combat before its hostile
\* ship, an event with a hostile ship and plain texts, an event without
\* any ship ("zhandou" is the word combat as one character), and a choice
\* with OPTION_INVALID and an inline event as its two outcomes, and a
\* choice whose one inline event has a choice with two inline events
Corpus7 ==
    << XmlFile(<< <<"f", "1">> >>,
        << El("FTL", <<>>, <<>>, <<>>, 0),
           El("event", <<"V">>, <<>>, <<>>, 1),
           El("text", <<>>, <<>>, <<"p">>, 2),
           El("choice", <<>>, <<>>, <<>>, 2),
           El("text", <<>>, <<>>, <<"zhandou", " ", "g">>, 4),
           El("event", <<>>, <<>>, <<>>, 4),
           El("text", <<>>, <<>>, <<"i">>, 6),
           Ship(<<>>, <<"S">>, <<"t", "r", "u", "e">>, 2),
           El("destroyed", <<>>, <<>>, <<>>, 8),
           El("text", <<>>, <<>>, <<"w">>, 9) >>),
       XmlFile(<< <<"f", "2">> >>,
        << El("FTL", <<>>, <<>>, <<>>, 0),
           El("event", <<"X">>, <<>>, <<>>, 1),
           El("text", <<>>, <<>>, <<"q">>, 2),
           Ship(<<>>, <<"S">>, <<"t", "r", "u", "e">>, 2),
           El("destroyed", <<>>, <<>>, <<>>, 4),
           El("text", <<>>, <<>>, <<"w">>, 5),
           El("event", <<"Y">>, <<>>, <<>>, 1),
           El("text", <<>>, <<>>, <<"c">>, 7) >>),
       XmlFile(<< <<"f", "3">> >>,
        << El("FTL", <<>>, <<>>, <<>>, 0),
           El("event", <<"Z">>, <<>>, <<>>, 1),
           El("choice", <<>>, <<>>, <<>>, 2),
           El("text", <<>>, <<>>, <<"n">>, 3),
           El("event", <<>>, OPTION_INVALID, <<>>, 3),
           El("event", <<>>, <<>>, <<>>, 3),
           El("text", <<>>, <<>>, <<"m">>, 6) >>),
       XmlFile(<< <<"f", "4">> >>,
        << El("FTL", <<>>, <<>>, <<>>, 0),
           El("event", <<"M">>, <<>>, <<>>, 1),
           El("choice", <<>>, <<>>, <<>>, 2),
           El("event", <<>>, <<>>, <<>>, 3),
           El("text", <<>>, <<>>, <<"1">>, 4),
           El("choice", <<>>, <<>>, <<>>, 4),
           El("event", <<>>, <<>>, <<>>, 6),
           El("text", <<>>, <<>>, <<"2">>, 7),
           El("event", <<>>, <<>>, <<>>, 6),
           El("text", <<>>, <<>>, <<"3">>, 9) >>) >>

\* an event that takes its text from a text list and loads itself
Corpus8 ==
    << XmlFile(<< <<"g", "1">> >>,
        << El("FTL", <<>>, <<>>, <<>>, 0),
           El("event", <<"O">>, <<>>, <<>>, 1),
           El("text", <<>>, <<"T">>, <<>>, 2),
           El("choice", <<>>, <<>>, <<>>, 2),
           El("loadEvent", <<>>, <<>>, <<"O">>, 4),
           El("textList", <<"T">>, <<>>, <<>>, 1),
           El("text", <<>>, <<>>, <<"t">>, 6) >>) >>

Corpora == {Corpus1, Corpus2, Corpus3, Corpus4, Corpus5, Corpus6, Corpus7, Corpus8}

(***************************************************************************)
(* The process-wide cache of cli.py and the threads that call search_once. *)
(* A Registry object is known by the number of the build that made it; a   *)
(* derived index (entries, nodes) by the Registry it was built from.  The  *)
(* content of an index is a function of the corpus alone.                  *)
(***************************************************************************)
Threads == {1, 2}

\* the data directories queried, by cache key, and their content
Keys == {"k1", "k2"}

CorpusOf(key) ==
    IF key = "k1" THEN Corpus1
    ELSE IF key = "k2" THEN Corpus2
    ELSE IF key = "k8" THEN Corpus8
    ELSE IF key = "k4" THEN Corpus4
    ELSE IF key = "k5" THEN Corpus5
    ELSE IF key = "k6" THEN Corpus6
    ELSE IF key = "k7" THEN Corpus7
    ELSE Corpus3

\* the max_depth values passed
Depths == {0, 2}

\* the queries and modes the threads pass: a blank and a proper query, a
\* valid and an invalid mode (id mode takes the path of auto up to the id step)
CallQueries == {<<>>, <<" ">>, <<"b">>}

CallModes == {<<"a", "u", "t", "o">>, <<"x">>}

\* Python's None, and the lock when nobody holds it
None == 0

Free == 0

FilesOf == [k \in Keys |-> SortFiles(CorpusOf(k))]

RegistryOf == [k \in Keys |-> build_registry(CorpusOf(k))]

EntriesOf ==
    [k \in Keys, d \in Depths |-> index_events_expanded(CorpusOf(k), RegistryOf[k], d)]

NodesOf == [k \in Keys |-> index_event_nodes(CorpusOf(k), RegistryOf[k])]

VARIABLES
    _CACHE_ENABLED,     \* not _CACHE_DISABLED, fixed when the module loads
    _CACHE_LOCK,        \* Free, or the thread inside "with _CACHE_LOCK"
    _REGISTRY_CACHE,    \* key -> Registry object or None
    _ENTRIES_CACHE,     \* (key, max_depth) -> the Registry the index was built from
    _NODES_CACHE,       \* key -> the Registry the index was built from
    pc,                 \* where each thread is in search_once
    arg,                \* the arguments of each thread's current call
    loc,                \* the locals of each thread's current call
    result,             \* what each thread's last call returned
    calls,              \* the calls made so far
    builds,             \* the Registry objects built so far
    target_event_el,    \* the event element an expansion was started on
    frames,             \* the calls of the expander that have not returned
    out_lines,          \* out_lines of the expander
    visited,            \* visited of the expander
    expanded,           \* expanded of the expander
    printed,            \* what the caller of the expander printed of out_lines
    indexer             \* the state of a run of index_events_expanded

\* the state of the expander
rendering == <<target_event_el, frames, out_lines, visited, expanded, printed>>

vars == <<_CACHE_ENABLED, _CACHE_LOCK, _REGISTRY_CACHE, _ENTRIES_CACHE, _NODES_CACHE,
          pc, arg, loc, result, calls, builds, rendering, indexer>>

\* no expansion is in progress
NotRendering ==
    /\ target_event_el = <<>>
    /\ frames = <<>>
    /\ out_lines = <<>>
    /\ visited = {}
    /\ expanded = {}
    /\ printed = <<>>

\* a run of index_events_expanded: the calls that have not returned, the
\* innermost first, expand_cache, visited, entries, and the value the last
\* call returned, with whether it was collected
Indexer(stack, expand_cache, path, found, out, returned) ==
    [stack |-> stack, expand_cache |-> expand_cache, visited |-> path,
     entries |-> found, out |-> out, returned |-> returned]

\* no index is being built step by step
NotIndexing == indexer = Indexer(<<>>, <<>>, {}, <<>>, <<>>, FALSE)

caches == <<_REGISTRY_CACHE, _ENTRIES_CACHE, _NODES_CACHE>>

NoArg == [key |-> "k1", query |-> <<>>, mode |-> <<>>, max_depth |-> 0]

\* the locals of a call before anything is looked up: reg, entries, nodes
\* and the built_now flag each _ensure_* call returned
NoLoc ==
    [reg |-> None, reg_built |-> FALSE, entries |-> None, entries_built |-> FALSE,
     nodes |-> None, nodes_built |-> FALSE]

\* a variant that takes the cached path whatever the switch says
UseCacheAlways(t) == TRUE

\* "if not _CACHE_ENABLED" at the head of each _ensure_* function
UseCache(t) == _CACHE_ENABLED

\* a variant that treats every lookup as a miss
NeverHit(cached) == FALSE

\* "if cached is not None"
CacheHit(cached) == cached # None

\* a variant that leaves a "with _CACHE_LOCK" block with the lock still held
KeepLock(t) == t

\* leaving a "with _CACHE_LOCK" block
ReleaseLock(t) == Free

\* a variant that keeps the Registry already in the slot (setdefault)
StoreIfAbsent(cache, key, reg) ==
    IF cache[key] # None THEN cache ELSE [cache EXCEPT ![key] = reg]

\* _REGISTRY_CACHE[key] = reg
StoreReg(cache, key, reg) == [cache EXCEPT ![key] = reg]

Init ==
    /\ _CACHE_ENABLED \in BOOLEAN
    /\ _CACHE_LOCK = Free
    /\ _REGISTRY_CACHE = [k \in Keys |-> None]
    /\ _ENTRIES_CACHE = [ek \in Keys \X Depths |-> None]
    /\ _NODES_CACHE = [k \in Keys |-> None]
    /\ pc = [t \in Threads |-> "idle"]
    /\ arg = [t \in Threads |-> NoArg]
    /\ loc = [t \in Threads |-> NoLoc]
    /\ result = [t \in Threads |-> NoResult]
    /\ calls = 0
    /\ builds = 0
    /\ NotRendering
    /\ NotIndexing

\* a thread returns from search_once
Return(t, r) ==
    /\ result' = [result EXCEPT ![t] = r]
    /\ pc' = [pc EXCEPT ![t] = "idle"]
    /\ arg' = [arg EXCEPT ![t] = NoArg]
    /\ loc' = [loc EXCEPT ![t] = NoLoc]

\* search_once is called
Call(t) ==
    /\ pc[t] = "idle"
    /\ calls < MaxCalls
    /\ \E k \in Keys, q \in CallQueries, m \in CallModes, d \in Depths :
          arg' = [arg EXCEPT ![t] = [key |-> k, query |-> q, mode |-> m,
                                     max_depth |-> d]]
    /\ pc' = [pc EXCEPT ![t] = "search_once"]
    /\ result' = [result EXCEPT ![t] = NoResult]
    /\ calls' = calls + 1
    /\ UNCHANGED <<rendering, indexer, _CACHE_ENABLED, _CACHE_LOCK, caches, loc, builds>>

\* the head of search_once (lines 478-486) with the outcome of its checks
Checked(t, outcome) ==
    IF outcome = "empty_query" THEN Return(t, EmptyQueryResult)
    ELSE IF outcome = "ValueError" THEN Return(t, ValueErrorResult)
    ELSE /\ pc' = [pc EXCEPT ![t] = "ensure_registry"]
         /\ UNCHANGED <<arg, loc, result>>

Check(t) ==
    /\ pc[t] = "search_once"
    /\ Checked(t, Validate(arg[t].query, arg[t].mode))
    /\ UNCHANGED <<rendering, indexer, _CACHE_ENABLED, _CACHE_LOCK, caches, calls, builds>>

\* _ensure_registry with the cache disabled (lines 49-52)
RegUncached(t) ==
    /\ pc[t] = "ensure_registry"
    /\ ~UseCache(t)
    /\ builds' = builds + 1
    /\ loc' = [loc EXCEPT ![t].reg = builds + 1, ![t].reg_built = TRUE]
    /\ pc' = [pc EXCEPT ![t] = "ensure_entries"]
    /\ UNCHANGED <<rendering, indexer, _CACHE_ENABLED, _CACHE_LOCK, caches, arg, result, calls>>

\* entering "with _CACHE_LOCK" (lines 55, 63, 80, 88, 100, 108)
Acquire(t, at, to) ==
    /\ pc[t] = at
    /\ _CACHE_LOCK = Free
    /\ _CACHE_LOCK' = t
    /\ pc' = [pc EXCEPT ![t] = to]
    /\ UNCHANGED <<rendering, indexer, _CACHE_ENABLED, caches, arg, loc, result, calls, builds>>

RegLock(t) == UseCache(t) /\ Acquire(t, "ensure_registry", "reg_get")

\* cached = _REGISTRY_CACHE.get(key), and the return of a hit (lines 56-58)
RegGet(t) ==
    /\ pc[t] = "reg_get"
    /\ _CACHE_LOCK' = ReleaseLock(t)
    /\ IF CacheHit(_REGISTRY_CACHE[arg[t].key])
       THEN /\ loc' = [loc EXCEPT ![t].reg = _REGISTRY_CACHE[arg[t].key],
                                  ![t].reg_built = FALSE]
            /\ pc' = [pc EXCEPT ![t] = "ensure_entries"]
       ELSE /\ loc' = loc
            /\ pc' = [pc EXCEPT ![t] = "reg_build"]
    /\ UNCHANGED <<rendering, indexer, _CACHE_ENABLED, caches, arg, result, calls, builds>>

\* reg = build_registry(data_dir) (lines 60-62)
RegBuild(t) ==
    /\ pc[t] = "reg_build"
    /\ builds' = builds + 1
    /\ loc' = [loc EXCEPT ![t].reg = builds + 1, ![t].reg_built = TRUE]
    /\ pc' = [pc EXCEPT ![t] = "reg_put_lock"]
    /\ UNCHANGED <<rendering, indexer, _CACHE_ENABLED, _CACHE_LOCK, caches, arg, result, calls>>

RegPutLock(t) == Acquire(t, "reg_put_lock", "reg_put")

\* the insert of _ensure_registry and the clearing of the derived caches
\* of the key (lines 64-70)
RegPut(t) ==
    /\ pc[t] = "reg_put"
    /\ _REGISTRY_CACHE' = StoreReg(_REGISTRY_CACHE, arg[t].key, loc[t].reg)
    /\ _ENTRIES_CACHE' = [ek \in Keys \X Depths |->
                             IF ek[1] = arg[t].key THEN None ELSE _ENTRIES_CACHE[ek]]
    /\ _NODES_CACHE' = [_NODES_CACHE EXCEPT ![arg[t].key] = None]
    /\ _CACHE_LOCK' = ReleaseLock(t)
    /\ pc' = [pc EXCEPT ![t] = "ensure_entries"]
    /\ UNCHANGED <<rendering, indexer, _CACHE_ENABLED, arg, loc, result, calls, builds>>

\* _ensure_entries with the cache disabled (lines 74-77)
EntUncached(t) ==
    /\ pc[t] = "ensure_entries"
    /\ ~UseCache(t)
    /\ loc' = [loc EXCEPT ![t].entries = loc[t].reg, ![t].entries_built = TRUE]
    /\ pc' = [pc EXCEPT ![t] = "id_step"]
    /\ UNCHANGED <<rendering, indexer, _CACHE_ENABLED, _CACHE_LOCK, caches, arg, result, calls, builds>>

EntLock(t) == UseCache(t) /\ Acquire(t, "ensure_entries", "ent_get")

\* cached = _ENTRIES_CACHE.get(key), and the return of a hit (lines 81-83)
EntGet(t) ==
    /\ pc[t] = "ent_get"
    /\ _CACHE_LOCK' = ReleaseLock(t)
    /\ IF CacheHit(_ENTRIES_CACHE[<<arg[t].key, arg[t].max_depth>>])
       THEN /\ loc' = [loc EXCEPT
                          ![t].entries = _ENTRIES_CACHE[<<arg[t].key, arg[t].max_depth>>],
                          ![t].entries_built = FALSE]
            /\ pc' = [pc EXCEPT ![t] = "id_step"]
       ELSE /\ loc' = loc
            /\ pc' = [pc EXCEPT ![t] = "ent_build"]
    /\ UNCHANGED <<rendering, indexer, _CACHE_ENABLED, caches, arg, result, calls, builds>>

\* entries = index_events(data_dir, reg, max_expand_depth=max_depth) (85-87)
EntBuild(t) ==
    /\ pc[t] = "ent_build"
    /\ loc' = [loc EXCEPT ![t].entries = loc[t].reg, ![t].entries_built = TRUE]
    /\ pc' = [pc EXCEPT ![t] = "ent_put_lock"]
    /\ UNCHANGED <<rendering, indexer, _CACHE_ENABLED, _CACHE_LOCK, caches, arg, result, calls, builds>>

EntPutLock(t) == Acquire(t, "ent_put_lock", "ent_put")

\* _ENTRIES_CACHE[key] = entries (lines 89-90)
EntPut(t) ==
    /\ pc[t] = "ent_put"
    /\ _ENTRIES_CACHE' = [_ENTRIES_CACHE EXCEPT
                             ![<<arg[t].key, arg[t].max_depth>>] = loc[t].entries]
    /\ _CACHE_LOCK' = ReleaseLock(t)
    /\ pc' = [pc EXCEPT ![t] = "id_step"]
    /\ UNCHANGED <<rendering, indexer, _CACHE_ENABLED, _REGISTRY_CACHE, _NODES_CACHE, arg, loc, result,
                   calls, builds>>

\* the exact-id step (lines 536-552) with its outcome
IdStepped(t, r) ==
    IF r # NoResult THEN Return(t, r)
    ELSE /\ pc' = [pc EXCEPT ![t] = "ensure_nodes"]
         /\ UNCHANGED <<arg, loc, result>>

IdStepDone(t) ==
    /\ pc[t] = "id_step"
    /\ IdStepped(t, IdStep(FilesOf[arg[t].key], EntriesOf[arg[t].key, arg[t].max_depth],
                           Strip(arg[t].query), arg[t].mode))
    /\ UNCHANGED <<rendering, indexer, _CACHE_ENABLED, _CACHE_LOCK, caches, calls, builds>>

\* _ensure_nodes with the cache disabled (lines 94-97)
NodUncached(t) ==
    /\ pc[t] = "ensure_nodes"
    /\ ~UseCache(t)
    /\ loc' = [loc EXCEPT ![t].nodes = loc[t].reg, ![t].nodes_built = TRUE]
    /\ pc' = [pc EXCEPT ![t] = "text_step"]
    /\ UNCHANGED <<rendering, indexer, _CACHE_ENABLED, _CACHE_LOCK, caches, arg, result, calls, builds>>

NodLock(t) == UseCache(t) /\ Acquire(t, "ensure_nodes", "nod_get")

\* cached = _NODES_CACHE.get(key), and the return of a hit (lines 101-103)
NodGet(t) ==
    /\ pc[t] = "nod_get"
    /\ _CACHE_LOCK' = ReleaseLock(t)
    /\ IF CacheHit(_NODES_CACHE[arg[t].key])
       THEN /\ loc' = [loc EXCEPT ![t].nodes = _NODES_CACHE[arg[t].key],
                                  ![t].nodes_built = FALSE]
            /\ pc' = [pc EXCEPT ![t] = "text_step"]
       ELSE /\ loc' = loc
            /\ pc' = [pc EXCEPT ![t] = "nod_build"]
    /\ UNCHANGED <<rendering, indexer, _CACHE_ENABLED, caches, arg, result, calls, builds>>

\* nodes = index_event_nodes(data_dir, reg) (lines 105-107)
NodBuild(t) ==
    /\ pc[t] = "nod_build"
    /\ loc' = [loc EXCEPT ![t].nodes = loc[t].reg, ![t].nodes_built = TRUE]
    /\ pc' = [pc EXCEPT ![t] = "nod_put_lock"]
    /\ UNCHANGED <<rendering, indexer, _CACHE_ENABLED, _CACHE_LOCK, caches, arg, result, calls, builds>>

NodPutLock(t) == Acquire(t, "nod_put_lock", "nod_put")

\* _NODES_CACHE[key] = nodes (lines 109-110)
NodPut(t) ==
    /\ pc[t] = "nod_put"
    /\ _NODES_CACHE' = [_NODES_CACHE EXCEPT ![arg[t].key] = loc[t].nodes]
    /\ _CACHE_LOCK' = ReleaseLock(t)
    /\ pc' = [pc EXCEPT ![t] = "text_step"]
    /\ UNCHANGED <<rendering, indexer, _CACHE_ENABLED, _REGISTRY_CACHE, _ENTRIES_CACHE, arg, loc, result,
                   calls, builds>>

\* the text step (lines 559-618)
TextStepDone(t) ==
    /\ pc[t] = "text_step"
    /\ Return(t, TextStep(FilesOf[arg[t].key], RegistryOf[arg[t].key],
                          EntriesOf[arg[t].key, arg[t].max_depth],
                          NodesOf[arg[t].key], Strip(arg[t].query)))
    /\ UNCHANGED <<rendering, indexer, _CACHE_ENABLED, _CACHE_LOCK, caches, calls, builds>>

\* every step of a call after its first
Step(t) ==
    \/ Check(t)
    \/ RegUncached(t) \/ RegLock(t) \/ RegGet(t) \/ RegBuild(t) \/ RegPutLock(t)
    \/ RegPut(t)
    \/ EntUncached(t) \/ EntLock(t) \/ EntGet(t) \/ EntBuild(t) \/ EntPutLock(t)
    \/ EntPut(t)
    \/ IdStepDone(t)
    \/ NodUncached(t) \/ NodLock(t) \/ NodGet(t) \/ NodBuild(t) \/ NodPutLock(t)
    \/ NodPut(t)
    \/ TextStepDone(t)

Next == \E t \in Threads : Call(t) \/ Step(t)

Spec == Init /\ [][Next]_vars

\* calls that never overlap: a call starts only when no other is running
CallAlone(t) == (\A u \in Threads : pc[u] = "idle") /\ Call(t)

NextSeq == \E t \in Threads : CallAlone(t) \/ Step(t)

SpecSeq == Init /\ [][NextSeq]_vars


(***************************************************************************)
(* One search on freshly built indexes: search_once as a function of its   *)
(* arguments, over every query of up to MaxQueryLen characters.            *)
(***************************************************************************)
QueryKeys == {"k1", "k2", "k3"}

QueryChars == {"a", "A", "b", "B", " "}

Queries == UNION {[1..n -> QueryChars] : n \in 0..MaxQueryLen}

QueryModes ==
    {<<>>, <<"a", "u", "t", "o">>, <<"t", "e", "x", "t">>, <<"i", "d">>,
     <<"I", "d">>, <<"x">>}

QueryDepths == {0, 2, 16}

InitQuery ==
    /\ _CACHE_ENABLED = FALSE
    /\ _CACHE_LOCK = Free
    /\ _REGISTRY_CACHE = [k \in Keys |-> None]
    /\ _ENTRIES_CACHE = [ek \in Keys \X Depths |-> None]
    /\ _NODES_CACHE = [k \in Keys |-> None]
    /\ pc = [t \in Threads |-> IF t = 1 THEN "search_once" ELSE "idle"]
    /\ \E k \in QueryKeys, q \in Queries, m \in QueryModes, d \in QueryDepths :
          arg = [t \in Threads |->
                    IF t = 1 THEN [key |-> k, query |-> q, mode |-> m, max_depth |-> d]
                    ELSE NoArg]
    /\ loc = [t \in Threads |-> NoLoc]
    /\ result = [t \in Threads |-> NoResult]
    /\ calls = 0
    /\ builds = 0
    /\ NotRendering
    /\ NotIndexing

\* the whole of search_once, the arguments kept for inspection
Search ==
    /\ pc[1] = "search_once"
    /\ result' = [result EXCEPT ![1] =
                     search_once(arg[1].query, CorpusOf(arg[1].key), arg[1].max_depth,
                                 arg[1].mode)]
    /\ pc' = [pc EXCEPT ![1] = "idle"]
    /\ calls' = calls + 1
    /\ builds' = IF Validate(arg[1].query, arg[1].mode) = "ok" THEN builds + 1
                 ELSE builds
    /\ UNCHANGED <<rendering, indexer, _CACHE_ENABLED, _CACHE_LOCK, caches, arg, loc>>

NextQuery == Search

SpecQuery == InitQuery /\ [][NextQuery]_vars

\* the search of SpecQuery has returned
Searched == pc[1] = "idle" /\ calls = 1

\* the search of SpecQuery has returned in the given mode, the query not blank
SearchedIn(mode_n) ==
    /\ Searched
    /\ Strip(arg[1].query) # <<>>
    /\ mode_normalized(arg[1].mode) = mode_n

\* the names of the named events of a corpus, parsed or found by the
\* fallback regular expression
NamedEventNames(corpus) ==
    UNION {{corpus[i].elems[j].name :
               j \in {j \in 1..Len(corpus[i].elems) : IsNamedEvent(corpus[i].elems[j])}}
           \cup {corpus[i].rawEvents[j].name :
               j \in {j \in 1..Len(corpus[i].rawEvents) :
                         corpus[i].rawEvents[j].name # <<>>}}
           : i \in 1..Len(corpus)}

\* some named event's name equals the query ignoring case
NamesEvent(corpus, q) == \E name \in NamedEventNames(corpus) : Lower(name) = Lower(q)

\* hit_nodes of the text step: the node hits after ancestor pruning
PrunedHits(corpus, q) ==
    _minimal_event_nodes(
        _search_nodes(index_event_nodes(corpus, build_registry(corpus)), q))

(***************************************************************************)
(* Properties of the cache (Spec, SpecSeq).                                *)
(***************************************************************************)
\* C1: the derived caches are never stale: whenever an entries or nodes
\* index is cached for a key, it was built from the Registry object that is
\* in the registry slot of that key at that moment.
DerivedCachesNeverStale ==
    \A k \in Keys :
        /\ _NODES_CACHE[k] # None => _NODES_CACHE[k] = _REGISTRY_CACHE[k]
        /\ \A d \in Depths :
              _ENTRIES_CACHE[<<k, d>>] # None
                 => _ENTRIES_CACHE[<<k, d>>] = _REGISTRY_CACHE[k]

\* where a thread is inside a "with _CACHE_LOCK" block
TablePcs == {"reg_get", "reg_put", "ent_get", "ent_put", "nod_get", "nod_put"}

\* where a thread is about to run build_registry, index_events_expanded or
\* index_event_nodes, or runs the search on what it has
BuildPcs ==
    {"ensure_registry", "reg_build", "ensure_entries", "ent_build", "ensure_nodes",
     "nod_build", "id_step", "text_step"}

\* C2: the lock is held only around the table lookup and the table insert:
\* a thread holds it exactly while it is inside one of those blocks, and
\* no thread that is building a registry or an index holds it.
LockOnlyAroundTables ==
    \A t \in Threads :
        /\ _CACHE_LOCK = t <=> pc[t] \in TablePcs
        /\ pc[t] \in BuildPcs => _CACHE_LOCK # t

\* C2 happens: one thread is building a registry while another holds the
\* lock for its own lookup
BuildBesideLockHolder ==
    \E t \in Threads, u \in Threads :
        /\ t # u
        /\ pc[t] = "reg_build"
        /\ _CACHE_LOCK = u
        /\ pc[u] \in TablePcs

\* C3: the insert of a registry overwrites the slot with the inserting
\* thread's Registry, so the last insert wins; a lookup that finds the slot
\* populated returns the object in it without building.
LastWriterWins ==
    [][\A t \in Threads :
          /\ (pc[t] = "reg_put" /\ pc'[t] # "reg_put")
                => _REGISTRY_CACHE'[arg[t].key] = loc[t].reg
          /\ (pc[t] = "reg_get" /\ pc'[t] # "reg_get"
                 /\ _REGISTRY_CACHE[arg[t].key] # None)
                => /\ pc'[t] = "ensure_entries"
                   /\ loc'[t].reg = _REGISTRY_CACHE[arg[t].key]
                   /\ ~loc'[t].reg_built
                   /\ builds' = builds]_vars

\* C3 happens: two threads built a Registry for the same key and both
\* inserted it; the slot holds the one inserted last, and a later call got
\* that object from the cache while the loser's call is still running
LoserAndLaterLookup ==
    \E t \in Threads, u \in Threads :
        /\ arg[t].key = arg[u].key
        /\ loc[t].reg_built
        /\ pc[t] \in {"ensure_entries", "ent_get", "ent_build", "ent_put_lock",
                      "ent_put", "id_step"}
        /\ loc[u].reg # None
        /\ ~loc[u].reg_built
        /\ loc[u].reg # loc[t].reg
        /\ loc[u].reg = _REGISTRY_CACHE[arg[u].key]
        /\ builds = 2

\* a populated slot keeps its object, and an index or registry is built
\* only for a slot that is empty
BuildOnlyOnMiss ==
    /\ \A k \in Keys :
          /\ _REGISTRY_CACHE[k] # None => _REGISTRY_CACHE'[k] = _REGISTRY_CACHE[k]
          /\ _NODES_CACHE[k] # None => _NODES_CACHE'[k] = _NODES_CACHE[k]
          /\ \A d \in Depths :
                _ENTRIES_CACHE[<<k, d>>] # None
                   => _ENTRIES_CACHE'[<<k, d>>] = _ENTRIES_CACHE[<<k, d>>]
    /\ \A t \in Threads :
          /\ (pc[t] = "reg_build" /\ pc'[t] # "reg_build")
                => _REGISTRY_CACHE[arg[t].key] = None
          /\ (pc[t] = "ent_build" /\ pc'[t] # "ent_build")
                => _ENTRIES_CACHE[<<arg[t].key, arg[t].max_depth>>] = None
          /\ (pc[t] = "nod_build" /\ pc'[t] # "nod_build")
                => _NODES_CACHE[arg[t].key] = None
          /\ (pc[t] = "reg_get" /\ pc'[t] # "reg_get"
                 /\ _REGISTRY_CACHE[arg[t].key] # None)
                => ~loc'[t].reg_built
          /\ (pc[t] = "ent_get" /\ pc'[t] # "ent_get"
                 /\ _ENTRIES_CACHE[<<arg[t].key, arg[t].max_depth>>] # None)
                => ~loc'[t].entries_built
          /\ (pc[t] = "nod_get" /\ pc'[t] # "nod_get" /\ _NODES_CACHE[arg[t].key] # None)
                => ~loc'[t].nodes_built

\* every Registry built so far is in a slot or on its way into one
OneBuildPerSlot ==
    builds = Cardinality({k \in Keys : _REGISTRY_CACHE[k] # None})
             + Cardinality({t \in Threads : pc[t] \in {"reg_put_lock", "reg_put"}})

\* C4: with caching enabled and calls that do not overlap, a registry is
\* built at most once per key, a node index at most once per key and an
\* entries index at most once per (key, max_depth): something is built only
\* for an empty slot, a populated slot never changes, and a lookup that
\* finds its slot populated reports built_now = false.
BuiltAtMostOnce ==
    /\ [](_CACHE_ENABLED => OneBuildPerSlot)
    /\ [][_CACHE_ENABLED => BuildOnlyOnMiss]_vars

\* C4 happens: a later call found the registry and the entries of its key
\* in the cache, built by an earlier call
LaterCallBuildsNothing ==
    \E t \in Threads :
        /\ _CACHE_ENABLED
        /\ calls >= 2
        /\ pc[t] = "id_step"
        /\ loc[t].reg # None
        /\ ~loc[t].reg_built
        /\ loc[t].entries # None
        /\ ~loc[t].entries_built

\* C5: with the cache switched off nothing is ever cached and the lock is
\* never taken: the tables stay empty, no thread is on a cached path, and
\* every registry, entries index and node index a call holds was built by
\* that call (built_now = true).
CacheSwitchedOff ==
    ~_CACHE_ENABLED =>
        /\ _CACHE_LOCK = Free
        /\ \A k \in Keys : _REGISTRY_CACHE[k] = None /\ _NODES_CACHE[k] = None
        /\ \A ek \in Keys \X Depths : _ENTRIES_CACHE[ek] = None
        /\ \A t \in Threads :
              /\ pc[t] \in {"idle", "search_once", "ensure_registry", "ensure_entries",
                            "id_step", "ensure_nodes", "text_step"}
              /\ loc[t].reg # None => loc[t].reg_built
              /\ loc[t].entries # None => loc[t].entries_built
              /\ loc[t].nodes # None => loc[t].nodes_built

\* C5 happens: with the cache off, a third Registry has been built and its
\* call has built entries and nodes too
RebuiltEveryTime ==
    \E t \in Threads :
        /\ ~_CACHE_ENABLED
        /\ builds = 3
        /\ pc[t] = "text_step"
        /\ loc[t].reg = 3
        /\ loc[t].reg_built /\ loc[t].entries_built /\ loc[t].nodes_built

\* C6: a call whose query is empty or only whitespace returns emptyQuery
\* at once, whatever the mode and whatever the cache holds: nothing is
\* built, and the tables and the lock are left as they were.
BlankQueryReturnsAtOnce ==
    [][\A t \in Threads :
          (pc[t] = "search_once" /\ pc'[t] # "search_once"
              /\ Strip(arg[t].query) = <<>>)
             => /\ result'[t] = EmptyQueryResult
                /\ pc'[t] = "idle"
                /\ builds' = builds
                /\ _CACHE_LOCK' = _CACHE_LOCK
                /\ _REGISTRY_CACHE' = _REGISTRY_CACHE
                /\ _ENTRIES_CACHE' = _ENTRIES_CACHE
                /\ _NODES_CACHE' = _NODES_CACHE]_vars

\* C6 happens: a blank query was answered with emptyQuery while a registry
\* is cached and the other thread is in the middle of a call
BlankQueryAnswered ==
    \E t \in Threads, u \in Threads :
        /\ result[t] = EmptyQueryResult
        /\ pc[t] = "idle"
        /\ pc[u] \notin {"idle", "search_once"}
        /\ \E k \in Keys : _REGISTRY_CACHE[k] # None

(***************************************************************************)
(* Properties of the search (SpecQuery).                                   *)
(***************************************************************************)
\* C7: in id mode the result is the expansion of the event whenever some
\* named event's name equals the query ignoring case, and notFound
\* otherwise.
IdModeFindsNamedEvents ==
    SearchedIn(<<"i", "d">>) =>
        IF NamesEvent(CorpusOf(arg[1].key), Strip(arg[1].query))
        THEN /\ result[1].kind = "expand"
             /\ Lower(result[1].name) = Lower(Strip(arg[1].query))
        ELSE result[1] = NotFoundResult

\* C8: the id lookup does not depend on the letter case of the query: the
\* query searched gives the result of its lower-case form, so every two
\* queries that differ only in letter case give the same result, the same
\* event expanded or notFound.
IdLookupIgnoresCase ==
    SearchedIn(<<"i", "d">>) =>
        search_once(Lower(Strip(arg[1].query)), CorpusOf(arg[1].key),
                    arg[1].max_depth, arg[1].mode)
            = result[1]

\* C8 happens: in a corpus with the events "A" and "a", the query "a" in id
\* mode returned the event "A", the first of the two
LowerCaseQueryFindsFirst ==
    /\ SearchedIn(<<"i", "d">>)
    /\ arg[1].key = "k1"
    /\ Strip(arg[1].query) = <<"a">>
    /\ result[1].kind = "expand"
    /\ result[1].name = <<"A">>

\* C9: in auto mode the id step comes first: when some named event's name
\* equals the query ignoring case the result is that event's expansion,
\* and otherwise it is what text mode returns for the same query.
AutoModeIdFirst ==
    SearchedIn(<<"a", "u", "t", "o">>) =>
        IF NamesEvent(CorpusOf(arg[1].key), Strip(arg[1].query))
        THEN /\ result[1].kind = "expand"
             /\ result[1].via = "entry_by_id"
             /\ Lower(result[1].name) = Lower(Strip(arg[1].query))
        ELSE result[1] = search_once(arg[1].query, CorpusOf(arg[1].key),
                                     arg[1].max_depth, <<"t", "e", "x", "t">>)

\* what text mode gives for n > 0 pruned node hits according to C10
ByHitCount(r, hits) ==
    /\ Len(hits) = 1 => r.kind = "expand" /\ r.via = "node" /\ r.target = hits[1].el
    /\ (2 <= Len(hits) /\ Len(hits) <= 5)
          => r.kind = "names" /\ r.names # <<>> /\ r.match_count = Len(hits)
    /\ Len(hits) > 5 => r.kind # "names" /\ r.names = <<>>

\* C10: text mode is decided by the number n of node hits left after
\* ancestor pruning: one hit is expanded, 2 to 5 hits give a names result
\* with the labels, and more than 5 hits give the too-many-matches summary
\* in place of a list of labels.
TextModeByHitCount ==
    SearchedIn(<<"t", "e", "x", "t">>) =>
        ByHitCount(result[1], PrunedHits(CorpusOf(arg[1].key), Strip(arg[1].query)))

(***************************************************************************)
(* The expander of summarize.py.  _summarize_event and _handle_event_ref   *)
(* call each other; a call is a frame on the stack frames, and what a call *)
(* does between two calls it makes is one step.  An element is <<file,     *)
(* index>>, or <<0, name>> for the dummy <event load=name> the code builds *)
(* for a loadEvent child or a ship definition.  An output line is its      *)
(* indentation, the words it starts with (label), the name or text it      *)
(* carries, the number of its branch and its percentage.  The attributes   *)
(* req, hidden and blue of a choice and the id of a text are not modelled, *)
(* and of the effects only weapon, drone and augment.                      *)
(***************************************************************************)
\* keys of the only_outcomes filter: the words combat, surrender, destroy,
\* crew dead, flee and enemy got away, each as one character of a text
outcome_keys ==
    {"zhandou", "touxiang", "cuihui", "chuanyuanquanmie", "taopao", "dijiantaozou"}

\* node.attrib.get("hostile", "false")
Hostile(e) == IF "hostile" \in DOMAIN e THEN e.hostile ELSE <<"false">>

\* ev_el.attrib.get("load")
AttrLoad(files, el) ==
    IF el[1] = 0 THEN el[2] ELSE files[el[1]].elems[el[2]].load

\* the children of element i of file fi that have the tag, as elements
ChildRefs(f, fi, i, tag) ==
    Pick([j \in 1..Len(f.elems) |-> <<fi, j>>],
         SelectSeq(Children(f, i), LAMBDA c : f.elems[c].tag = tag))

\* [t for t in list(el) if tag(t) == tag]; a dummy element has no children
KidsOf(files, el, tag) ==
    IF el[1] = 0 THEN <<>> ELSE ChildRefs(files[el[1]], el[1], el[2], tag)

\* (el.text or "").strip()
TextOf(files, el) == Strip(files[el[1]].elems[el[2]].text)

\* the words an output line starts with, after its indentation: "text",
\* "effects", "choice", "combat" and "outcome" (the label of an outcome
\* kind) for the lines of an event; "branch" for a numbered branch of a
\* choice; "event" for the arrow and name of a loaded event; "list" and
\* "inline_list" for the arrow and name, or the size, of a list; "group" for
\* a numbered branch with its percentage; "empty" for the line of a list
\* without items; "unknown" for a name in no table; "trunc" for the
\* ellipsis; "event_cycle" and "list_cycle" for the label with the words
\* that a cycle was detected; "event_shown" and "list_shown" for the label
\* with the words that it was expanded before
Line(ind, label, name, idx, pct) ==
    [ind |-> ind, label |-> label, name |-> name, idx |-> idx, pct |-> pct]

\* abbrev_text(s), head = tail = 10
abbrev_text(s) ==
    IF Len(s) <= 20 THEN s
    ELSE SubSeq(s, 1, 10) \o <<".", ".", ".">> \o SubSeq(s, Len(s) - 9, Len(s))

\* " | ".join(vals[:2])
Sample(vals) ==
    IF Len(vals) = 1 THEN vals[1] ELSE vals[1] \o <<" | ">> \o vals[2]

\* _text_from_text_element
_text_from_text_element(reg, e) ==
    IF e.load # <<>>
    THEN IF DictGetOr(reg.text_lists, e.load, <<>>) # <<>>
         THEN <<"[textList ">> \o e.load \o <<"] ">>
                  \o Sample(DictGet(reg.text_lists, e.load))
         ELSE <<"[textList ">> \o e.load \o <<"]">>
    ELSE Strip(e.text)

\* _text_from_text_element(txt_nodes[0], reg) if txt_nodes else ""
FirstText(files, reg, texts) ==
    IF texts = <<>> THEN <<>>
    ELSE _text_from_text_element(reg, files[texts[1][1]].elems[texts[1][2]])

\* element j lies in a <choice> below element i
UnderChoice(f, j, i) ==
    \E c \in (i + 1)..j :
        f.elems[c].tag = "choice" /\ IsUnder(f, c, i) /\ IsUnder(f, j, c)

\* _localize_effect_text: the word of _TERM_TRANSLATIONS for the tag
\* (weapon, drone and augment are written in Chinese)
Localized(tag) ==
    CASE tag = "weapon" -> "wuqi"
      [] tag = "drone" -> "wurenji"
      [] tag = "augment" -> "bujian"
      [] OTHER -> tag

\* extract_effects: the effect of every weapon, drone or augment below the
\* event and outside its choices, each once
EffectOf(e) == <<"+", Localized(e.tag), ":">> \o e.name

extract_effects(f, i) ==
    Unique(Pick([j \in 1..Len(f.elems) |-> EffectOf(f.elems[j])],
                SelectSeq(Iter(f, i),
                          LAMBDA j : /\ j # i
                                     /\ f.elems[j].tag \in {"weapon", "drone", "augment"}
                                     /\ ~UnderChoice(f, j, i))))

\* ", ".join(eff)
RECURSIVE JoinComma(_)
JoinComma(parts) ==
    IF parts = <<>> THEN <<>>
    ELSE IF Len(parts) = 1 THEN parts[1]
    ELSE parts[1] \o <<", ">> \o JoinComma(Tail(parts))

(***************************************************************************)
(* The percentage of a group: p = cnt * 100.0 / total, printed with no     *)
(* decimal when it is within 0.05 of round(p) and with one otherwise.      *)
(* <<n, 0>> is "n%" and <<t, 1>> is t tenths of a percent.                 *)
(***************************************************************************)
\* round(num / den), a tie to the even neighbour
RoundDiv(num, den) ==
    IF 2 * (num % den) > den \/ (2 * (num % den) = den /\ (num \div den) % 2 = 1)
    THEN (num \div den) + 1
    ELSE num \div den

Abs(x) == IF x < 0 THEN 0 - x ELSE x

\* abs(p - round(p)) < 0.05
NearWhole(cnt, total) ==
    Abs(cnt * 100 - RoundDiv(cnt * 100, total) * total) * 20 < total

\* a variant that prints every percentage without a decimal
WholeAlways(cnt, total) == <<RoundDiv(cnt * 100, total), 0>>

\* p_str
p_str(cnt, total) ==
    IF NearWhole(cnt, total) THEN <<RoundDiv(cnt * 100, total), 0>>
    ELSE <<RoundDiv(cnt * 1000, total), 1>>

(***************************************************************************)
(* The groups of the items of an event list.                               *)
(***************************************************************************)
\* the level of element j below element i
RECURSIVE Level(_, _, _)
Level(f, j, i) == IF j <= i THEN 0 ELSE 1 + Level(f, f.elems[j].parent, i)

\* ET.tostring(it): the subtree of the element, tags, attributes and texts
Serialized(f, i) ==
    Pick([j \in 1..Len(f.elems) |->
             <<f.elems[j].tag, f.elems[j].name, f.elems[j].load,
               f.elems[j].text, Hostile(f.elems[j]), Level(f, j, i)>>],
         Iter(f, i))

\* key_item: ("load", load) or ("inline", ET.tostring(it))
ItemKey(files, it) ==
    IF AttrLoad(files, it) # <<>>
    THEN << <<"load", <<>>, AttrLoad(files, it), <<>>, <<>>, 0>> >>
    ELSE Serialized(files[it[1]], it[2])

ItemKeys(files, items) == [k \in 1..Len(items) |-> ItemKey(files, items[k])]

\* a variant that makes every item a group of its own
NoGrouping(keys) == Indices(keys)

\* order: the positions of the items that open a group, in first-seen order
GroupOrder(keys) ==
    SelectSeq(Indices(keys), LAMBDA k : \A j \in 1..(k - 1) : keys[j] # keys[k])

\* cnt of the group the item at position k opens
GroupCount(keys, k) == Cardinality({j \in 1..Len(keys) : keys[j] = keys[k]})

\* a call: the operation, its element (or key) and its depth
Frame(op, el, depth) == [op |-> op, el |-> el, depth |-> depth, line |-> <<>>]

\* a line the caller appends when the calls before it have returned
Later(line) == [op |-> "line", el |-> <<>>, depth |-> 0, line |-> line]

\* one group: its line, then _handle_event_ref(rep, depth + 2) or
\* _summarize_event(rep, depth + 3)
GroupSteps(files, items, keys, order, idx, depth) ==
    << Later(Line(depth + 2, "group", <<>>, idx,
                  p_str(GroupCount(keys, order[idx]), Len(items)))),
       IF AttrLoad(files, items[order[idx]]) # <<>>
       THEN Frame("ref", items[order[idx]], depth + 2)
       ELSE Frame("summarize", items[order[idx]], depth + 3) >>

RECURSIVE Flat(_)
Flat(ss) == IF Len(ss) = 0 THEN <<>> ELSE Head(ss) \o Flat(Tail(ss))

GroupsOf(files, items, keys, order, depth) ==
    Flat([idx \in 1..Len(order) |-> GroupSteps(files, items, keys, order, idx, depth)])

\* the rendering of the items of a list: the empty line, or its groups
ItemsSteps(files, items, depth) ==
    IF items = <<>> THEN << Later(Line(depth + 2, "empty", <<>>, 0, <<>>)) >>
    ELSE GroupsOf(files, items, ItemKeys(files, items),
                  GroupOrder(ItemKeys(files, items)), depth)

(***************************************************************************)
(* _summarize_event: what one call appends and calls, in order.            *)
(***************************************************************************)
\* some element of its has the load attribute name
LoadIs(files, its, name) ==
    \E k \in 1..Len(its) : AttrLoad(files, its[k]) = name

\* an <eventList> child of a choice holds OPTION_INVALID: among the items
\* of the list it loads, or among its own <event> children
InvalidList(files, reg, evl) ==
    IF AttrLoad(files, evl) # <<>>
    THEN LoadIs(files, DictGetOr(reg.event_lists, AttrLoad(files, evl), <<>>),
                OPTION_INVALID)
    ELSE LoadIs(files, KidsOf(files, evl, "event"), OPTION_INVALID)

\* invalid: the next level of the choice holds OPTION_INVALID
Invalid(files, reg, ch) ==
    \/ LoadIs(files, KidsOf(files, ch, "event"), OPTION_INVALID)
    \/ \E le \in Range(KidsOf(files, ch, "loadEvent")) :
          TextOf(files, le) = OPTION_INVALID
    \/ \E evl \in Range(KidsOf(files, ch, "eventList")) :
          InvalidList(files, reg, evl)
    \/ \E lel \in Range(KidsOf(files, ch, "loadEventList")) :
          /\ TextOf(files, lel) # <<>>
          /\ LoadIs(files, DictGetOr(reg.event_lists, TextOf(files, lel), <<>>),
                    OPTION_INVALID)

\* the line of a choice begins with the bytes E9 80 89 E6 8B A9 3A
choice_label == "choice"

\* the line the invalid branch looks for begins with the bytes
\* D1 A1 EF BF BD EF BF BD 3A, which are other bytes
retract_label == "choice, bytes D1 A1 EF BF BD EF BF BD"

\* the line of a choice
ChoiceLine(files, reg, ch, depth) ==
    Line(depth, choice_label,
         abbrev_text(FirstText(files, reg, KidsOf(files, ch, "text"))), 0, <<>>)

\* if out_lines and out_lines[-1].startswith("  " * depth + ...): out_lines.pop()
Retract(lines, depth) ==
    IF /\ lines # <<>>
       /\ lines[Len(lines)].ind = depth
       /\ lines[Len(lines)].label = retract_label
    THEN SubSeq(lines, 1, Len(lines) - 1)
    ELSE lines

\* a variant that resolves the <event> children of a choice without labels
NestedEventsUnlabelled(evs, depth) == [k \in 1..Len(evs) |-> Frame("ref", evs[k], depth)]

\* the <event> children of a choice: numbered branches when there are
\* several, and one level less deep when there is one
NestedEvents(evs, depth) ==
    IF Len(evs) > 1
    THEN Flat([idx \in 1..Len(evs) |->
                  << Later(Line(depth + 1, "branch", <<>>, idx, <<>>)),
                     Frame("ref", evs[idx], depth + 1) >>])
    ELSE [k \in 1..Len(evs) |-> Frame("ref", evs[k], depth)]

\* an <eventList> child of a choice: the list it loads, or its own events
NestedList(files, reg, evl, depth) ==
    IF AttrLoad(files, evl) # <<>>
    THEN << Later(Line(depth + 1, "list", AttrLoad(files, evl), 0, <<>>)) >>
            \o ItemsSteps(files, DictGetOr(reg.event_lists, AttrLoad(files, evl), <<>>),
                          depth)
    ELSE << Later(Line(depth + 1, "inline_list", <<>>,
                       Len(KidsOf(files, evl, "event")), <<>>)) >>
            \o ItemsSteps(files, KidsOf(files, evl, "event"), depth)

\* a <loadEvent> child of a choice: its line, and the dummy event resolved
LoadEvent(name, depth) ==
    IF name = <<>> THEN <<>>
    ELSE << Later(Line(depth + 1, "event", name, 0, <<>>)),
            Frame("ref", <<0, name>>, depth + 1) >>

\* a <loadEventList> child of a choice: its line and the items of the list
LoadEventList(files, reg, name, depth) ==
    IF name = <<>> THEN <<>>
    ELSE << Later(Line(depth + 1, "list", name, 0, <<>>)) >>
            \o ItemsSteps(files, DictGetOr(reg.event_lists, name, <<>>), depth)

\* what follows the line of a choice that is not invalid
Outcomes(files, reg, ch, depth) ==
    NestedEvents(KidsOf(files, ch, "event"), depth)
    \o Flat([k \in 1..Len(KidsOf(files, ch, "eventList")) |->
                NestedList(files, reg, KidsOf(files, ch, "eventList")[k], depth)])
    \o Flat([k \in 1..Len(KidsOf(files, ch, "loadEvent")) |->
                LoadEvent(TextOf(files, KidsOf(files, ch, "loadEvent")[k]), depth)])
    \o Flat([k \in 1..Len(KidsOf(files, ch, "loadEventList")) |->
                LoadEventList(files, reg,
                              TextOf(files, KidsOf(files, ch, "loadEventList")[k]),
                              depth)])

LaterAll(lines) == [k \in 1..Len(lines) |-> Later(lines[k])]

\* one <choice> child: its line, retracted or left when the choice is
\* invalid, and its outcomes otherwise
Choice(files, reg, ch, depth) ==
    IF Invalid(files, reg, ch)
    THEN LaterAll(Retract(<< ChoiceLine(files, reg, ch, depth) >>, depth))
    ELSE << Later(ChoiceLine(files, reg, ch, depth)) >>
            \o Outcomes(files, reg, ch, depth)

\* ship_key
ShipKey(e) == OrElse(e.load, OrElse(e.name, <<"(unknown)">>))

\* the entry of a ship definition as the element to expand
EntryNodes(ent) ==
    IF ent.load # <<>> THEN << <<0, ent.load>> >> ELSE << ent.el >>

\* nodes_for(key): the inline outcome branches, or the one of ship_defs
nodes_for(files, defs, node, kind) ==
    IF KidsOf(files, node, kind) # <<>> THEN KidsOf(files, node, kind)
    ELSE IF ~DictHas(defs, kind) THEN <<>>
    ELSE EntryNodes(DictGet(defs, kind))

\* one outcome branch: a load other than COMBAT_CHECK is resolved, an
\* element without a load is summarized
OutcomeSub(files, sub, depth) ==
    IF AttrLoad(files, sub) # <<>>
    THEN IF AttrLoad(files, sub) = COMBAT_CHECK THEN <<>>
         ELSE << Frame("ref", sub, depth + 1) >>
    ELSE << Frame("summarize", sub, depth + 2) >>

\* the outcomes of one kind: the label of the kind and its branches
Outcome(files, subs, kind, depth) ==
    IF subs = <<>> THEN <<>>
    ELSE << Later(Line(depth + 1, "outcome", <<kind>>, 0, <<>>)) >>
            \o Flat([k \in 1..Len(subs) |-> OutcomeSub(files, subs[k], depth)])

\* one <ship> child: nothing unless hostile, else its line and its outcomes
ShipOf(files, reg, node, e, depth) ==
    IF Lower(Hostile(e)) # <<"t", "r", "u", "e">> THEN <<>>
    ELSE << Later(Line(depth, "combat", ShipKey(e), 0, <<>>)) >>
            \o Flat([k \in 1..Len(ship_kinds) |->
                        Outcome(files,
                                nodes_for(files, DictGetOr(reg.ship_defs, ShipKey(e), <<>>),
                                          node, ship_kinds[k]),
                                ship_kinds[k], depth)])

\* the line of the text of the event, if it has one
TextLine(txt_raw, depth) ==
    IF txt_raw = <<>> THEN <<>>
    ELSE << Later(Line(depth, "text", abbrev_text(txt_raw), 0, <<>>)) >>

\* the line of the effects of the event, if it has any
EffectsLine(eff, depth) ==
    IF eff = <<>> THEN <<>>
    ELSE << Later(Line(depth, "effects", JoinComma(eff), 0, <<>>)) >>

\* the body of _summarize_event below the depth test
Body(files, reg, el, depth) ==
    TextLine(FirstText(files, reg, KidsOf(files, el, "text")), depth)
    \o EffectsLine(extract_effects(files[el[1]], el[2]), depth)
    \o Flat([k \in 1..Len(KidsOf(files, el, "choice")) |->
                Choice(files, reg, KidsOf(files, el, "choice")[k], depth)])
    \o Flat([k \in 1..Len(KidsOf(files, el, "ship")) |->
                ShipOf(files, reg, KidsOf(files, el, "ship")[k],
                       files[el[1]].elems[KidsOf(files, el, "ship")[k][2]], depth)])

(***************************************************************************)
(* The expander as a machine (SpecExpand).  It starts at the call          *)
(* _summarize_event(el, reg, depth=0, max_depth, visited=set(),            *)
(* out_lines=lines, expanded=set()) that search_once makes on the event    *)
(* element of the one match (cli.py 517 and 581).                          *)
(***************************************************************************)
ExpandKeys == {"k4", "k5", "k6", "k7"}

\* the max_depth values passed; 16 is the default of search_once
ExpandDepths == {0, 1, 3, 16}

ExpandFiles == [k \in ExpandKeys |-> SortFiles(CorpusOf(k))]

ExpandRegistry == [k \in ExpandKeys |-> build_registry(CorpusOf(k))]

\* the <event> elements of the files: the elements a match can be
EventEls(files) ==
    UNION {{<<fi, i>> : i \in {i \in 1..Len(files[fi].elems) :
                                  files[fi].elems[i].tag = "event"}}
           : fi \in 1..Len(files)}

InitExpand ==
    /\ _CACHE_ENABLED = FALSE
    /\ _CACHE_LOCK = Free
    /\ _REGISTRY_CACHE = [k \in Keys |-> None]
    /\ _ENTRIES_CACHE = [ek \in Keys \X Depths |-> None]
    /\ _NODES_CACHE = [k \in Keys |-> None]
    /\ pc = [t \in Threads |-> "idle"]
    /\ \E k \in ExpandKeys, d \in ExpandDepths :
          /\ arg = [t \in Threads |->
                       IF t = 1 THEN [key |-> k, query |-> <<>>, mode |-> <<>>,
                                      max_depth |-> d]
                       ELSE NoArg]
          /\ target_event_el \in EventEls(ExpandFiles[k])
    /\ loc = [t \in Threads |-> NoLoc]
    /\ result = [t \in Threads |-> NoResult]
    /\ calls = 0
    /\ builds = 0
    /\ frames = << Frame("summarize", target_event_el, 0) >>
    /\ out_lines = <<>>
    /\ visited = {}
    /\ expanded = {}
    /\ printed = <<>>
    /\ NotIndexing

\* the call on top of the stack
Top == Head(frames)

\* the load attribute of the element _handle_event_ref is called on
TopLoad == AttrLoad(ExpandFiles[arg[1].key], Top.el)

\* the lines a caller appends until its next call, and the calls left
RECURSIVE Resume(_, _)
Resume(lines, todo) ==
    IF todo # <<>> /\ Head(todo).op = "line"
    THEN Resume(Append(lines, Head(todo).line), Tail(todo))
    ELSE <<lines, todo>>

\* control goes on with the calls todo, after the lines were appended
GoOn(lines, todo) ==
    /\ out_lines' = Resume(lines, todo)[1]
    /\ frames' = Resume(lines, todo)[2]

\* what the expander leaves alone
Apart ==
    UNCHANGED <<_CACHE_ENABLED, _CACHE_LOCK, caches, pc, arg, loc, result, calls,
                builds, target_event_el, printed, indexer>>

\* _summarize_event beyond max_depth: the truncation line
Truncate ==
    /\ frames # <<>>
    /\ Top.op = "summarize"
    /\ Top.depth > arg[1].max_depth
    /\ GoOn(Append(out_lines, Line(Top.depth, "trunc", <<>>, 0, <<>>)), Tail(frames))
    /\ UNCHANGED <<visited, expanded>>
    /\ Apart

\* _summarize_event within max_depth, up to the first call it makes
Summarize ==
    /\ frames # <<>>
    /\ Top.op = "summarize"
    /\ Top.depth <= arg[1].max_depth
    /\ GoOn(out_lines,
            Body(ExpandFiles[arg[1].key], ExpandRegistry[arg[1].key], Top.el, Top.depth)
                \o Tail(frames))
    /\ UNCHANGED <<visited, expanded>>
    /\ Apart

\* _handle_event_ref on an element without a load: the element is summarized
RefInline ==
    /\ frames # <<>>
    /\ Top.op = "ref"
    /\ TopLoad = <<>>
    /\ frames' = << Frame("summarize", Top.el, Top.depth + 1) >> \o Tail(frames)
    /\ UNCHANGED <<out_lines, visited, expanded>>
    /\ Apart

\* _handle_event_ref on a load of COMBAT_CHECK: it returns
RefCombatCheck ==
    /\ frames # <<>>
    /\ Top.op = "ref"
    /\ TopLoad = COMBAT_CHECK
    /\ GoOn(out_lines, Tail(frames))
    /\ UNCHANGED <<visited, expanded>>
    /\ Apart

\* the load names an event or a list: which, and under what key
RefKind(reg, load) ==
    IF load = <<>> \/ load = COMBAT_CHECK THEN "none"
    ELSE IF DictHas(reg.events, load) THEN "event"
    ELSE IF DictHas(reg.event_lists, load) THEN "list"
    ELSE "unknown"

TopKind == IF frames # <<>> /\ Top.op = "ref"
           THEN RefKind(ExpandRegistry[arg[1].key], TopLoad)
           ELSE "none"

\* key: E:load or L:load
TopKey == <<IF TopKind = "event" THEN "E" ELSE "L", TopLoad>>

\* the event or list is on the current path, or was expanded before: one line
RefSkipped ==
    /\ TopKind \in {"event", "list"}
    /\ TopKey \in visited \cup expanded
    /\ GoOn(Append(out_lines,
                   Line(Top.depth + 1,
                        IF TopKey \in visited
                        THEN (IF TopKind = "event" THEN "event_cycle" ELSE "list_cycle")
                        ELSE (IF TopKind = "event" THEN "event_shown" ELSE "list_shown"),
                        TopLoad, 0, <<>>)),
            Tail(frames))
    /\ UNCHANGED <<visited, expanded>>
    /\ Apart

\* the event is expanded: its line, and the element of reg.events summarized
RefEvent ==
    /\ TopKind = "event"
    /\ TopKey \notin visited \cup expanded
    /\ visited' = visited \cup {TopKey}
    /\ expanded' = expanded \cup {TopKey}
    /\ GoOn(Append(out_lines, Line(Top.depth + 1, "event", TopLoad, 0, <<>>)),
            << Frame("summarize", DictGet(ExpandRegistry[arg[1].key].events, TopLoad),
                     Top.depth + 2),
               Frame("discard", TopKey, 0) >> \o Tail(frames))
    /\ Apart

\* the list is expanded: its line and its groups
RefList ==
    /\ TopKind = "list"
    /\ TopKey \notin visited \cup expanded
    /\ visited' = visited \cup {TopKey}
    /\ expanded' = expanded \cup {TopKey}
    /\ GoOn(Append(out_lines, Line(Top.depth + 1, "list", TopLoad, 0, <<>>)),
            ItemsSteps(ExpandFiles[arg[1].key],
                       DictGet(ExpandRegistry[arg[1].key].event_lists, TopLoad),
                       Top.depth)
                \o << Frame("discard", TopKey, 0) >> \o Tail(frames))
    /\ Apart

\* the load names neither an event nor a list: the line that says so
RefUnknown ==
    /\ TopKind = "unknown"
    /\ GoOn(Append(out_lines, Line(Top.depth + 1, "unknown", TopLoad, 0, <<>>)),
            Tail(frames))
    /\ UNCHANGED <<visited, expanded>>
    /\ Apart

\* a variant of the return of _handle_event_ref that leaves the key in visited
ReturnKeepingKey ==
    /\ frames # <<>>
    /\ Top.op = "discard"
    /\ GoOn(out_lines, Tail(frames))
    /\ UNCHANGED <<visited, expanded>>
    /\ Apart

\* visited.discard(key), and the return of _handle_event_ref
Discard ==
    /\ frames # <<>>
    /\ Top.op = "discard"
    /\ visited' = visited \ {Top.el}
    /\ GoOn(out_lines, Tail(frames))
    /\ UNCHANGED expanded
    /\ Apart

\* a line holds one of the keys: the labels of a combat line and of an
\* outcome kind do, and so does a text with the word in it
HasKey(line) ==
    \/ line.label \in {"combat", "outcome"}
    \/ \E i \in 1..Len(line.name) : line.name[i] \in outcome_keys

\* the only_outcomes filter: the lines from the first one with a key on,
\* or all of them when none has one
only_outcomes_filter(lines) ==
    IF FirstIndex({i \in 1..Len(lines) : HasKey(lines[i])}) # 0
    THEN SubSeq(lines, FirstIndex({i \in 1..Len(lines) : HasKey(lines[i])}),
                Len(lines))
    ELSE OrElse(SelectSeq(lines, HasKey), lines)

\* the caller prints the lines when _summarize_event has returned, filtered
\* when only_outcomes is set
Show ==
    /\ frames = <<>>
    /\ printed = <<>>
    /\ \E only_outcomes \in BOOLEAN :
          printed' = [only_outcomes |-> only_outcomes,
                      lines |-> IF only_outcomes THEN only_outcomes_filter(out_lines)
                                ELSE out_lines]
    /\ UNCHANGED <<_CACHE_ENABLED, _CACHE_LOCK, caches, pc, arg, loc, result, calls,
                   builds, target_event_el, frames, out_lines, visited, expanded,
                   indexer>>

NextExpand ==
    \/ Truncate \/ Summarize
    \/ RefInline \/ RefCombatCheck \/ RefSkipped \/ RefEvent \/ RefList \/ RefUnknown
    \/ Discard
    \/ Show

SpecExpand == InitExpand /\ [][NextExpand]_vars

\* the expansion was started and every call has returned
ExpandDone == target_event_el # <<>> /\ frames = <<>>

(***************************************************************************)
(* Properties of the expander (SpecExpand).                                *)
(***************************************************************************)
\* the corpus and the registry of the expansion
RootFiles == ExpandFiles[arg[1].key]

RootReg == ExpandRegistry[arg[1].key]

\* the lines of out_lines that have one of the labels
LinesOf(labels) == {k \in 1..Len(out_lines) : out_lines[k].label \in labels}

\* the name an element refers to: the text of a loadEvent or a
\* loadEventList, the load of an event, an eventList or an outcome branch
RefName(e) ==
    IF e.tag \in {"loadEvent", "loadEventList"} THEN Strip(e.text)
    ELSE IF e.tag \in {"event", "eventList"} \cup ship_branch_tags THEN e.load
    ELSE <<>>

\* the names referred to below element i of a file
NamesBelow(f, i) ==
    {RefName(f.elems[j]) : j \in {j \in 1..Len(f.elems) : j # i /\ IsUnder(f, j, i)}}
        \ {<<>>, COMBAT_CHECK, OPTION_INVALID}

\* the names an item of a list refers to
ItemNames(files, it) ==
    IF AttrLoad(files, it) # <<>> THEN {AttrLoad(files, it)}
    ELSE NamesBelow(files[it[1]], it[2])

\* the names the expansion of a name goes on to: those below the event of
\* the name, or those of the items of the list of the name
Successors(files, reg, n) ==
    IF DictHas(reg.events, n)
    THEN NamesBelow(files[DictGet(reg.events, n)[1]], DictGet(reg.events, n)[2])
    ELSE IF DictHas(reg.event_lists, n)
    THEN UNION {ItemNames(files, it) : it \in Range(DictGet(reg.event_lists, n))}
    ELSE {}

\* the names reached from the names S in at most k steps
RECURSIVE Reached(_, _, _, _)
Reached(files, reg, S, k) ==
    IF k = 0 THEN S
    ELSE Reached(files, reg,
                 S \cup UNION {Successors(files, reg, n) : n \in S}, k - 1)

\* the names under which the expansion comes to the element again: its own
\* name when the registry has the element under it, and the list it is an
\* item of
OwnNames(reg, el) ==
    {n \in DictKeys(reg.events) : DictGet(reg.events, n) = el}
    \cup {n \in DictKeys(reg.event_lists) : el \in Range(DictGet(reg.event_lists, n))}

\* the load references of the event lead back into the event
LeadsBack(files, reg, el) ==
    OwnNames(reg, el)
        \cap Reached(files, reg, NamesBelow(files[el[1]], el[2]),
                     Len(reg.events) + Len(reg.event_lists)) # {}

\* the default max_depth of search_once
default_max_depth == 16

\* C12: expanding an event whose load references lead back into itself
\* ends with exactly one cycle line in the rendering, whether the cycle
\* passes through named events, named lists, or lists referenced by
\* loadEventList or by the load of an eventList (here at the default depth).
OneCycleLinePerCycle ==
    (/\ ExpandDone
     /\ arg[1].max_depth = default_max_depth
     /\ LeadsBack(RootFiles, RootReg, target_event_el))
        => Cardinality(LinesOf({"event_cycle", "list_cycle"})) = 1

\* C13: max_depth bounds the whole recursion: no call resolves the name
\* of an event or of a list at a depth greater than max_depth, whatever the
\* form of the reference, the items of a list that load a further list
\* included.
ResolvedWithinMaxDepth ==
    TopKind \in {"event", "list"} => Top.depth <= arg[1].max_depth

\* the <choice> elements of the files
ChoiceEls(files) ==
    UNION {{<<fi, i>> : i \in {i \in 1..Len(files[fi].elems) :
                                  files[fi].elems[i].tag = "choice"}}
           : fi \in 1..Len(files)}

\* the lines of the choices that OPTION_INVALID makes invalid, at any depth
InvalidChoiceLines(files, reg) ==
    {ChoiceLine(files, reg, ch, d) :
        ch \in {c \in ChoiceEls(files) : Invalid(files, reg, c)},
        d \in 0..(default_max_depth + 3)}

\* C14: a choice suppressed because of OPTION_INVALID is dropped entirely:
\* when the expansion has returned, out_lines holds no line of such a choice.
InvalidChoiceDropped ==
    ExpandDone =>
        \A k \in 1..Len(out_lines) :
            out_lines[k] \notin InvalidChoiceLines(RootFiles, RootReg)

\* the lines that open the full expansion of the named list: its label
\* followed by its branches (a later reference has the label "list_shown"
\* or "list_cycle")
ListOpenings(name) ==
    {k \in LinesOf({"list"}) : out_lines[k].name = name}

\* C15: each named list is fully expanded at most once in one expansion,
\* whatever the form of the references to it (load of an event, loadEvent,
\* load of an eventList, loadEventList): every later reference gives one
\* marker line.
ListExpandedOnce ==
    ExpandDone =>
        \A name \in DictKeys(RootReg.event_lists) :
            Cardinality(ListOpenings(name)) <= 1

\* the name is in neither reg.events nor reg.event_lists
InNoTable(reg, name) ==
    ~DictHas(reg.events, name) /\ ~DictHas(reg.event_lists, name)

\* C16: a reference to a name that is in neither events nor event_lists is
\* rendered as a line that says the name is unknown, whatever the form of
\* the reference (load of an event, loadEvent, load of an eventList,
\* loadEventList): when the expansion has returned, every name an event or
\* list line carries is in a table or has its unknown line.
UnknownNameReported ==
    ExpandDone =>
        \A k \in LinesOf({"event", "list"}) :
            (out_lines[k].name # COMBAT_CHECK /\ InNoTable(RootReg, out_lines[k].name))
                => \E u \in LinesOf({"unknown"}) : out_lines[u].name = out_lines[k].name

\* C17: COMBAT_CHECK is always a no-op: a reference to it gives no output
\* line and leaves visited and expanded as they are, whatever the form of
\* the reference (load of an event, loadEvent, load of a ship outcome): no
\* line carries the name and no key of it is in visited or expanded.
CombatCheckLeavesNoTrace ==
    /\ \A k \in 1..Len(out_lines) : out_lines[k].name # COMBAT_CHECK
    /\ \A key \in visited \cup expanded : key[2] # COMBAT_CHECK

\* a percentage as printed, in tenths of a percent
Tenths(pct) == IF pct[2] = 0 THEN 10 * pct[1] ELSE pct[1]

\* the last digit a percentage is printed with, in tenths of a percent
UnitOf(pct) == IF pct[2] = 0 THEN 10 ELSE 1

\* the sum of the percentages of the lines ks of out_lines, and of their units
RECURSIVE SumTenths(_)
SumTenths(ks) ==
    IF ks = {} THEN 0
    ELSE Tenths(out_lines[CHOOSE k \in ks : TRUE].pct)
            + SumTenths(ks \ {CHOOSE k \in ks : TRUE})

RECURSIVE SumUnits(_)
SumUnits(ks) ==
    IF ks = {} THEN 0
    ELSE UnitOf(out_lines[CHOOSE k \in ks : TRUE].pct)
            + SumUnits(ks \ {CHOOSE k \in ks : TRUE})

\* the group lines of the list whose label is line k of out_lines: the
\* group lines one level below it, with only deeper lines in between
GroupLinesOf(k) ==
    {j \in LinesOf({"group"}) :
        /\ j > k
        /\ out_lines[j].ind = out_lines[k].ind + 1
        /\ \A m \in (k + 1)..j : out_lines[m].ind > out_lines[k].ind}

\* the lists the expander renders: those of reg.event_lists, and the
\* <event> children of every <eventList>
ItemLists(files, reg) ==
    {reg.event_lists[n][2] : n \in 1..Len(reg.event_lists)}
    \cup UNION {{KidsOf(files, <<fi, i>>, "event") :
                    i \in {i \in 1..Len(files[fi].elems) :
                              files[fi].elems[i].tag = "eventList"}}
                : fi \in 1..Len(files)}

\* the items of a list, split into those with the same key
Classes(keys) ==
    {{j \in 1..Len(keys) : keys[j] = keys[i]} : i \in 1..Len(keys)}

\* the group lines among the steps that render a list
GroupLines(steps) ==
    SelectSeq(steps, LAMBDA s : s.op = "line" /\ s.line.label = "group")

\* the groups rendered for the items are the classes of the items in the
\* order of their first items, numbered from 1, each with the percentage
\* of its count in the total, to half of its last digit
GroupsAreClasses(keys, order, lines) ==
    /\ Len(lines) = Cardinality(Classes(keys))
    /\ Len(order) = Len(lines)
    /\ \A j \in 1..Len(keys) :
          Cardinality({g \in 1..Len(order) : keys[order[g]] = keys[j]}) = 1
    /\ \A g \in 1..Len(lines) :
          /\ lines[g].line.idx = g
          /\ \A h \in 1..(g - 1) : order[h] < order[g]
          /\ Abs(Tenths(lines[g].line.pct) * Len(keys)
                    - 1000 * Cardinality({j \in 1..Len(keys) : keys[j] = keys[order[g]]}))
                * 2 <= Len(keys)

\* C18: in every expansion of an event list the groups partition the items
\* of the list, the probability of a group is its count over the total,
\* and the percentages printed for the groups of a list sum to 100% within
\* one unit of the last printed digit for each group.
GroupsPartitionAndSumTo100 ==
    ExpandDone =>
        /\ \A items \in ItemLists(RootFiles, RootReg) \ {<<>>} :
              GroupsAreClasses(ItemKeys(RootFiles, items),
                               GroupOrder(ItemKeys(RootFiles, items)),
                               GroupLines(ItemsSteps(RootFiles, items, 0)))
        /\ \A k \in LinesOf({"list", "inline_list"}) :
              \/ k < Len(out_lines) /\ out_lines[k + 1].label = "empty"
              \/ /\ GroupLinesOf(k) # {}
                 /\ Abs(SumTenths(GroupLinesOf(k)) - 1000) <= SumUnits(GroupLinesOf(k))

\* C18 happens: an expansion printed a list of several groups whose
\* percentages are not whole numbers and sum to 99.9%
GroupsOfThreeThirds ==
    /\ ExpandDone
    /\ \E k \in LinesOf({"inline_list"}) :
          /\ Cardinality(GroupLinesOf(k)) = 3
          /\ SumTenths(GroupLinesOf(k)) = 999

\* a list of three items: two loads of one name and an item without a load
ThreeWithPair(files, items) ==
    /\ Len(items) = 3
    /\ \E i \in 1..3, j \in 1..3, m \in 1..3 :
          /\ i < j /\ m \notin {i, j}
          /\ AttrLoad(files, items[i]) # <<>>
          /\ AttrLoad(files, items[i]) = AttrLoad(files, items[j])
          /\ AttrLoad(files, items[m]) = <<>>

\* lines j1 and j2 are branches 1 and 2, the one of the loads at 67% or
\* 66.7% and the one of the item without a load at 33% or 33.3%
TwoThirdsAndThird(j1, j2, loads_first) ==
    /\ j1 < j2
    /\ out_lines[j1].idx = 1
    /\ out_lines[j2].idx = 2
    /\ out_lines[IF loads_first THEN j1 ELSE j2].pct \in {<<67, 0>>, <<667, 1>>}
    /\ out_lines[IF loads_first THEN j2 ELSE j1].pct \in {<<33, 0>>, <<333, 1>>}

\* cnt of total, as a percentage, is within 0.05 of an integer
WithinTwentieth(cnt, total) ==
    \E n \in 0..100 : Abs(cnt * 100 - n * total) * 20 < total

\* C19: a list of three items, two of them loads of the same name and one
\* inline, expands to exactly two groups numbered 1 and 2 in first-seen
\* order, the loads at 67% (or 66.7%) and the inline item at 33% (or
\* 33.3%); and a percentage is printed as a whole number exactly when it is
\* within 0.05 of an integer, and with one decimal otherwise.
TwoGroupsOfThreeItems ==
    ExpandDone =>
        /\ \A k \in LinesOf({"list"}) :
              (/\ DictHas(RootReg.event_lists, out_lines[k].name)
               /\ ThreeWithPair(RootFiles, DictGet(RootReg.event_lists, out_lines[k].name)))
                 => \E j1 \in GroupLinesOf(k), j2 \in GroupLinesOf(k) :
                       /\ GroupLinesOf(k) = {j1, j2}
                       /\ TwoThirdsAndThird(
                             j1, j2,
                             AttrLoad(RootFiles,
                                      DictGet(RootReg.event_lists,
                                              out_lines[k].name)[1]) # <<>>)
        /\ \A total \in 1..MaxItems : \A cnt \in 1..total :
              /\ p_str(cnt, total)[2] = (IF WithinTwentieth(cnt, total) THEN 0 ELSE 1)
              /\ Abs(Tenths(p_str(cnt, total)) * total - 1000 * cnt) * 2 <= total

\* C19 happens: the list PA of Corpus6 (a load of Q, an inline event, a
\* load of Q) was expanded, with the first branch at 66.7% and the second
\* at 33.3%
PairAndInlineExpanded ==
    /\ ExpandDone
    /\ \E k \in LinesOf({"list"}) :
          /\ DictHas(RootReg.event_lists, out_lines[k].name)
          /\ ThreeWithPair(RootFiles, DictGet(RootReg.event_lists, out_lines[k].name))
          /\ \E j1 \in GroupLinesOf(k), j2 \in GroupLinesOf(k) :
                /\ out_lines[j1].idx = 1 /\ out_lines[j1].pct = <<667, 1>>
                /\ out_lines[j2].idx = 2 /\ out_lines[j2].pct = <<333, 1>>

(***************************************************************************)
(* Properties of the indexes (SpecQuery).                                  *)
(***************************************************************************)
\* the nodes a text query matches, before pruning
NodeHits(corpus, q) ==
    _search_nodes(index_event_nodes(corpus, build_registry(corpus)), q)

\* the names the entry search matches, before pruning
NameHits(corpus, q, max_depth) ==
    _search(index_events_expanded(corpus, build_registry(corpus), max_depth), q)

\* event node a encloses event node n in the element tree of their file
Encloses(files, a, n) ==
    /\ a.uid[1] = "EN" /\ n.uid[1] = "EN"
    /\ a.file = n.file
    /\ a.el # n.el
    /\ IsUnder(files[a.file], n.el[2], a.el[2])

\* pruned is hits without the nodes that are an ancestor of another hit
MinimalNodes(files, hits, pruned) ==
    /\ Range(pruned) \subseteq Range(hits)
    /\ \A a \in Range(hits), n \in Range(hits) :
          (a.uid \in Range(n.ancestors) \/ Encloses(files, a, n))
             => a \notin Range(pruned)
    /\ \A n \in Range(hits) :
          (\A d \in Range(hits) : n.uid \notin Range(d.ancestors))
             => n \in Range(pruned)

\* pruned is names without the names that are an ancestor of another name
MinimalNames(reg, names, pruned) ==
    /\ Range(pruned) \subseteq Range(names)
    /\ \A a \in Range(names), n \in Range(names) :
          a \in Range(DictGetOr(reg.event_ancestors, n, <<>>))
             => a \notin Range(pruned)
    /\ \A n \in Range(names) :
          (\A d \in Range(names) :
              n \notin Range(DictGetOr(reg.event_ancestors, d, <<>>)))
             => n \in Range(pruned)

\* the registry and the indexes of each data directory searched
RegistryIn == [k \in QueryKeys |-> build_registry(CorpusOf(k))]

NodesIn == [k \in QueryKeys |-> index_event_nodes(CorpusOf(k), RegistryIn[k])]

EntriesIn ==
    [k \in QueryKeys, d \in QueryDepths |->
        index_events_expanded(CorpusOf(k), RegistryIn[k], d)]

SortedIn == [k \in QueryKeys |-> SortFiles(CorpusOf(k))]

\* the pruning of the node hits leaves the minimal ones
PrunedMinimal(files, hits) == MinimalNodes(files, hits, _minimal_event_nodes(hits))

\* the pruning of the matched names leaves the minimal ones
NamesMinimal(reg, names) == MinimalNames(reg, names, _minimal_events(names, reg))

\* C11: minimal-match pruning: the pruned result holds no node that is a
\* structural ancestor of another matched node, and it holds every matched
\* node that has no matched descendant; so when a node and its ancestor
\* both match, the node is returned and the ancestor is not.  The same
\* holds for the pruning of matched names by their named ancestors.  The
\* searches are those in auto and in text mode, which reach the pruning.
PruningKeepsMinimal ==
    (SearchedIn(<<"a", "u", "t", "o">>) \/ SearchedIn(<<"t", "e", "x", "t">>)) =>
        /\ PrunedMinimal(SortedIn[arg[1].key],
                         _search_nodes(NodesIn[arg[1].key], Strip(arg[1].query)))
        /\ NamesMinimal(RegistryIn[arg[1].key],
                        _search(EntriesIn[arg[1].key, arg[1].max_depth],
                                Strip(arg[1].query)))

\* C11 happens: a text search matched a node and its ancestor, and the one
\* node left after pruning was expanded
AncestorPruned ==
    /\ SearchedIn(<<"t", "e", "x", "t">>)
    /\ \E a \in Range(NodeHits(CorpusOf(arg[1].key), Strip(arg[1].query))),
          n \in Range(NodeHits(CorpusOf(arg[1].key), Strip(arg[1].query))) :
          /\ a.uid \in Range(n.ancestors)
          /\ result[1].kind = "expand"
          /\ result[1].via = "node"
          /\ result[1].target = n.el

\* the orders in which a directory walk can discover the files of a corpus
Walks(corpus) ==
    {[i \in 1..Len(corpus) |-> corpus[p[i]]] :
        p \in {p \in [1..Len(corpus) -> 1..Len(corpus)] :
                  \A i \in 1..Len(corpus), j \in 1..Len(corpus) :
                      p[i] = p[j] => i = j}}

\* the names of the named events a parsed file defines
DefinedIn(f) == {f.elems[j].name : j \in {j \in 1..Len(f.elems) : IsNamedEvent(f.elems[j])}}

\* in the events table of the registry built from the files as discovered,
\* every name defined in a localized and in another file is the localized one
LocalizedWins(files, events) ==
    \A i \in 1..Len(files), j \in 1..Len(files) :
        (is_zh(files[i].path) /\ ~is_zh(files[j].path)) =>
            \A name \in DefinedIn(files[i]) \cap DefinedIn(files[j]) :
                /\ DictHas(events, name)
                /\ is_zh(files[DictGet(events, name)[1]].path)

\* the data directories in which the localized definitions win in every
\* order of discovery
OverridingKeys ==
    {k \in QueryKeys :
        \A walk \in Walks(CorpusOf(k)) :
            LocalizedWins(SortFiles(walk), build_registry(walk).events)}

\* C20: localization override: when an event name is defined in a file
\* that is not a localization and in a localization-marked file, the events
\* table maps the name to the node of the localization file, in whatever
\* order the files were discovered.
LocalizationOverrides ==
    Searched => arg[1].key \in OverridingKeys

\* C20 happens: the corpus has the event "A" in a localized and in a base
\* file, and an id search for it expanded the node of the localized file
LocalizedEventFound ==
    /\ SearchedIn(<<"i", "d">>)
    /\ arg[1].key = "k3"
    /\ result[1].kind = "expand"
    /\ result[1].name = <<"A">>
    /\ is_zh(SortFiles(CorpusOf("k3"))[result[1].target[1]].path)
    /\ \E j \in 1..Len(CorpusOf("k3")) :
          /\ ~is_zh(CorpusOf("k3")[j].path)
          /\ <<"A">> \in DefinedIn(CorpusOf("k3")[j])

(***************************************************************************)
(* Properties of the ship definitions of the registry (SpecExpand).        *)
(***************************************************************************)
\* the outcome child has inline content: child elements or a text
HasInline(f, c) == Children(f, c) # <<>> \/ Strip(f.elems[c].text) # <<>>

\* the named <ship> elements of a file
NamedShips(f) ==
    {i \in 1..Len(f.elems) : f.elems[i].tag = "ship" /\ f.elems[i].name # <<>>}

\* the outcome children of a ship block
OutcomeKids(f, i) ==
    {c \in 1..Len(f.elems) : f.elems[c].parent = i /\ f.elems[c].tag \in Range(ship_kinds)}

\* no outcome child of the same kind of a ship block of the same name comes
\* after child c of block i of file fi: its entry is the one that stays
StaysStored(files, fi, i, c) ==
    \A fj \in 1..Len(files) : \A j \in NamedShips(files[fj]) :
        \A c2 \in OutcomeKids(files[fj], j) :
            (/\ files[fj].elems[j].name = files[fi].elems[i].name
             /\ files[fj].elems[c2].tag = files[fi].elems[c].tag)
               => (fj < fi \/ (fj = fi /\ c2 <= c))

\* the entry of the registry for the kind of child c of the ship block i
StoredEntry(reg, f, i, c) ==
    DictGet(DictGet(reg.ship_defs, f.elems[i].name), f.elems[c].tag)

\* C21: for every named ship block and each of the five outcome kinds, the
\* registry holds the inline subtree of the outcome child when the child has
\* inline content, and holds the load reference only when it has none.
ShipOutcomesPreferInline ==
    \A fi \in 1..Len(RootFiles) : \A i \in NamedShips(RootFiles[fi]) :
        \A c \in OutcomeKids(RootFiles[fi], i) :
            StaysStored(RootFiles, fi, i, c) =>
                /\ DictHas(RootReg.ship_defs, RootFiles[fi].elems[i].name)
                /\ DictHas(DictGet(RootReg.ship_defs, RootFiles[fi].elems[i].name),
                           RootFiles[fi].elems[c].tag)
                /\ IF HasInline(RootFiles[fi], c)
                   THEN StoredEntry(RootReg, RootFiles[fi], i, c)
                           = [load |-> <<>>, el |-> <<fi, c>>]
                   ELSE RootFiles[fi].elems[c].load # <<>>
                           => StoredEntry(RootReg, RootFiles[fi], i, c)
                                 = [load |-> RootFiles[fi].elems[c].load, el |-> <<>>]

\* the same for the outcome children that do not have both a load and
\* inline content
ShipOutcomesWithoutBoth ==
    \A fi \in 1..Len(RootFiles) : \A i \in NamedShips(RootFiles[fi]) :
        \A c \in OutcomeKids(RootFiles[fi], i) :
            (/\ StaysStored(RootFiles, fi, i, c)
             /\ ~(HasInline(RootFiles[fi], c) /\ RootFiles[fi].elems[c].load # <<>>))
               => StoredEntry(RootReg, RootFiles[fi], i, c)
                     = ShipEntry(RootFiles[fi].elems[c], fi, c)

(***************************************************************************)
(* The text of an expand result (SpecQuery).  A line of the text is named  *)
(* by what it says: "matched_event" (the header with the name and the      *)
(* file), "not_located" (the line that the text was not located inside the *)
(* event), "located" (the line that locates the text, or says that it was *)
(* not located), "warn_unparsed"                                           *)
(* (the warning that the file cannot be parsed), "warn_no_target" (the     *)
(* warning that the event is not in the file), and "summary" for the lines *)
(* of _summarize_event, which SpecExpand renders.                          *)
(***************************************************************************)
\* the target element was found, and _summarize_event is called on it
Summarized(files, r) ==
    IF r.via = "node" THEN TRUE
    ELSE files[r.target[1]].parsed /\ r.target[2] # 0

\* what _expand_entry prints: its two headers, then the summary if the file
\* parses and holds the event
ExpandEntryText(files, r) ==
    <<"matched_event", "not_located">>
        \o (IF Summarized(files, r) THEN <<"summary">> ELSE <<>>)

\* what show_single_event_detail prints for an entry of kind event
ShowSingleText(files, r) ==
    IF ~files[r.target[1]].parsed THEN <<"warn_unparsed">>
    ELSE IF r.target[2] = 0 THEN <<"warn_no_target">>
    ELSE <<"matched_event", "located", "summary">>

\* the lines of the text of an expand result
TextLines(files, r) ==
    IF r.via = "entry_by_id" THEN ExpandEntryText(files, r)
    ELSE IF r.via = "show_single_event_detail" THEN ShowSingleText(files, r)
    ELSE <<"matched_event", "summary">>

\* the result expands an entry whose file cannot be parsed
ExpandsUnparsed(files, r) ==
    /\ r.kind = "expand"
    /\ r.via \in {"entry_by_id", "show_single_event_detail"}
    /\ ~files[r.target[1]].parsed

\* C22: when the file of the target event cannot be parsed, the expansion
\* gives exactly one warning line and no exception, on the exact-id path of
\* search_once as on the path of show_single_event_detail.
UnparsedGivesOneWarning ==
    (Searched /\ ExpandsUnparsed(SortedIn[arg[1].key], result[1]))
        => TextLines(SortedIn[arg[1].key], result[1]) = <<"warn_unparsed">>

\* the same on the path of show_single_event_detail alone
UnparsedWarnsInShowSingle ==
    (/\ Searched
     /\ ExpandsUnparsed(SortedIn[arg[1].key], result[1])
     /\ result[1].via = "show_single_event_detail")
        => TextLines(SortedIn[arg[1].key], result[1]) = <<"warn_unparsed">>

\* an entry of a file that cannot be parsed was expanded by
\* show_single_event_detail
UnparsedShownSingle ==
    /\ Searched
    /\ ExpandsUnparsed(SortedIn[arg[1].key], result[1])
    /\ result[1].via = "show_single_event_detail"

(***************************************************************************)
(* The only_outcomes filter (SpecExpand).                                  *)
(***************************************************************************)
\* the lines with the label of a combat or of an outcome kind
OutcomeLabeled(lines) ==
    {i \in 1..Len(lines) : lines[i].label \in {"combat", "outcome"}}

\* the lines from line i on
From(lines, i) == SubSeq(lines, i, Len(lines))

\* the caller printed the lines with only_outcomes set
PrintedFiltered == printed # <<>> /\ printed.only_outcomes

\* C23: with only_outcomes the lines printed are the rendered lines from
\* the first line with a combat or outcome label on, and all the rendered
\* lines when there is no such line; so they are a suffix of the rendered
\* lines, and not empty unless the rendered lines are.
FilteredFromFirstOutcomeLine ==
    PrintedFiltered =>
        /\ printed.lines =
              IF OutcomeLabeled(out_lines) # {}
              THEN From(out_lines, FirstIndex(OutcomeLabeled(out_lines)))
              ELSE out_lines
        /\ \E i \in 1..(Len(out_lines) + 1) : printed.lines = From(out_lines, i)
        /\ out_lines # <<>> => printed.lines # <<>>

\* the part of it that holds: a suffix, not empty unless the rendering is,
\* that starts no later than the first labeled line
FilteredIsSuffix ==
    PrintedFiltered =>
        /\ \E i \in 1..(Len(out_lines) + 1) :
              /\ printed.lines = From(out_lines, i)
              /\ OutcomeLabeled(out_lines) # {}
                    => i <= FirstIndex(OutcomeLabeled(out_lines))
        /\ out_lines # <<>> => printed.lines # <<>>

(***************************************************************************)
(* Properties of the node index (SpecQuery).                               *)
(***************************************************************************)
\* the <event> elements of a file that enclose element i, outermost first
EnclosingEvents(f, i) ==
    SelectSeq(Indices(f.elems),
              LAMBDA j : j # i /\ f.elems[j].tag = "event" /\ IsUnder(f, i, j))

\* the uid of the node of an <event> element
UidOfEvent(nodes, el) ==
    (CHOOSE n \in Range(nodes) : n.uid[1] = "EN" /\ n.el = el).uid

\* the uids of the nodes of the elements its of file fi
UidsOfEvents(nodes, fi, its) == [k \in 1..Len(its) |-> UidOfEvent(nodes, <<fi, its[k]>>)]

\* the uids of the <event> elements that enclose the element of node n
LexicalChain(nodes, files, n) ==
    UidsOfEvents(nodes, n.file, EnclosingEvents(files[n.file], n.el[2]))

\* the data directories in whose node index every node has the uids of its
\* enclosing <event> elements as ancestors
LexicalKeys ==
    {k \in QueryKeys :
        \A n \in Range(NodesIn[k]) : n.ancestors = LexicalChain(NodesIn[k], SortedIn[k], n)}

\* C24: for every indexed node, ancestors is exactly the chain of the uids
\* of the <event> elements that enclose it in its file, outermost first: a
\* load reference adds no ancestor and a ship block pushes no frame, so the
\* node of a ship outcome branch and an event nested in that branch carry
\* the stack of the enclosing events.
AncestorsAreEnclosingEvents ==
    Searched => arg[1].key \in LexicalKeys

\* the node of the index of key k for the element el
NodeAt(k, el) == CHOOSE n \in Range(NodesIn[k]) : n.el = el

\* C24 happens: a search expanded the node of the destroyed branch of the
\* ship block of event "b"; that node and the event nested in the branch
\* both have the node of "b" as their one ancestor, and the event "B" that
\* the escape branch loads has none
ShipBranchNodeExpanded ==
    /\ Searched
    /\ arg[1].key = "k2"
    /\ result[1].kind = "expand"
    /\ result[1].via = "node"
    /\ result[1].target = <<2, 9>>
    /\ NodeAt("k2", <<2, 9>>).uid[1] = "SH"
    /\ NodeAt("k2", <<2, 9>>).ancestors = <<NodeAt("k2", <<2, 6>>).uid>>
    /\ NodeAt("k2", <<2, 11>>).ancestors = <<NodeAt("k2", <<2, 6>>).uid>>
    /\ NodeAt("k2", <<1, 6>>).ancestors = <<>>

\* no two nodes of an index have the same uid
UidsDistinct(nodes) ==
    \A i \in 1..Len(nodes), j \in 1..Len(nodes) : nodes[i].uid = nodes[j].uid => i = j

\* every ancestor of a node is the uid of an earlier node of the same file
AncestorsEarlier(nodes) ==
    \A i \in 1..Len(nodes) :
        \A a \in Range(nodes[i].ancestors) :
            \E j \in 1..(i - 1) : nodes[j].uid = a /\ nodes[j].file = nodes[i].file

\* the ancestors of the last ancestor of a node are the ancestors before it
ChainClosed(nodes) ==
    \A n \in Range(nodes) :
        n.ancestors # <<>> =>
            \E a \in Range(nodes) :
                /\ a.uid = n.ancestors[Len(n.ancestors)]
                /\ a.ancestors = SubSeq(n.ancestors, 1, Len(n.ancestors) - 1)

\* the data directories whose node index has distinct uids and closed chains
ClosedKeys ==
    {k \in QueryKeys :
        /\ UidsDistinct(NodesIn[k])
        /\ AncestorsEarlier(NodesIn[k])
        /\ ChainClosed(NodesIn[k])}

\* C28: within one node index every uid is distinct, the nodes of events
\* and the nodes of ship outcome branches included; every uid among the
\* ancestors of a node is that of an earlier node of the same file; and the
\* chain is closed: when the ancestors of a node are a1..ak, the ancestors
\* of ak are a1..a(k-1).
UidsDistinctAndChainsClosed ==
    Searched => arg[1].key \in ClosedKeys

\* C28 happens: the index searched has the first event node and the first
\* ship branch node, numbered alike, in different files, and an event two
\* events deep whose last ancestor has the first ancestor as its own
TwoDeepChainIndexed ==
    /\ Searched
    /\ arg[1].key = "k2"
    /\ result[1].kind = "names"
    /\ \E e \in Range(NodesIn["k2"]), s \in Range(NodesIn["k2"]) :
          /\ e.uid = <<"EN", 1>> /\ s.uid = <<"SH", 1>>
          /\ e.file # s.file
    /\ \E n \in Range(NodesIn["k2"]), a \in Range(NodesIn["k2"]) :
          /\ Len(n.ancestors) = 2
          /\ a.uid = n.ancestors[2]
          /\ a.ancestors = <<n.ancestors[1]>>

(***************************************************************************)
(* Properties of the pruning of the node hits (SpecQuery).                 *)
(***************************************************************************)
\* kept is hits without some of its nodes, the others in their order
KeptInOrder(hits, kept) == kept = SelectSeq(hits, LAMBDA n : n \in Range(kept))

\* every node of hits that is not kept is an ancestor of a node that is
DroppedHaveKeptDescendant(hits, kept) ==
    \A n \in Range(hits) :
        n \notin Range(kept) => \E d \in Range(kept) : n.uid \in Range(d.ancestors)

\* the pruning of hits loses no match
PruningLosesNothing(hits, kept) ==
    /\ hits # <<>> => kept # <<>>
    /\ DroppedHaveKeptDescendant(hits, kept)
    /\ KeptInOrder(hits, kept)
    /\ _minimal_event_nodes(kept) = kept

\* the pruning of the nodes a query matches loses no match
HitsPrunedLosingNothing(hits) == PruningLosesNothing(hits, _minimal_event_nodes(hits))

\* C29: minimal-match pruning never loses a match: when some node matched,
\* some node is left after pruning; every node that was dropped has a
\* structural descendant that was kept; the kept nodes are in the order
\* they had; and pruning the pruned nodes again changes nothing.  A text
\* search whose query matched a node does not end as notFound.
PruningNeverLosesAMatch ==
    (SearchedIn(<<"a", "u", "t", "o">>) \/ SearchedIn(<<"t", "e", "x", "t">>)) =>
        /\ HitsPrunedLosingNothing(
              _search_nodes(NodesIn[arg[1].key], Strip(arg[1].query)))
        /\ _search_nodes(NodesIn[arg[1].key], Strip(arg[1].query)) # <<>>
              => result[1].kind \in {"expand", "names"}

\* C29 happens: a text search matched at least three nodes, some were
\* dropped as ancestors, and the two or more left were returned as names
AncestorsDroppedSeveralKept ==
    /\ SearchedIn(<<"t", "e", "x", "t">>)
    /\ Len(NodeHits(CorpusOf(arg[1].key), Strip(arg[1].query))) >= 3
    /\ Len(PrunedHits(CorpusOf(arg[1].key), Strip(arg[1].query))) >= 2
    /\ Len(PrunedHits(CorpusOf(arg[1].key), Strip(arg[1].query)))
          < Len(NodeHits(CorpusOf(arg[1].key), Strip(arg[1].query)))
    /\ result[1].kind = "names"
    /\ result[1].match_count = Len(PrunedHits(CorpusOf(arg[1].key), Strip(arg[1].query)))

(***************************************************************************)
(* Properties of visited and expanded (SpecExpand).                        *)
(***************************************************************************)
\* the keys of the calls of _handle_event_ref that have not returned
InProgress == {frames[i].el : i \in {i \in 1..Len(frames) : frames[i].op = "discard"}}

\* visited holds the keys of the calls in progress, each of them once
VisitedIsThePath ==
    /\ visited = InProgress
    /\ Cardinality(visited)
          = Cardinality({i \in 1..Len(frames) : frames[i].op = "discard"})

\* the key a line about a cycle names
CycleKey(line) == <<IF line.label = "event_cycle" THEN "E" ELSE "L", line.name>>

\* every line appended in this step that reports a cycle names a key whose
\* call is in progress
CyclesAreOnThePath ==
    \A i \in (Len(out_lines) + 1)..Len(out_lines') :
        out_lines'[i].label \in {"event_cycle", "list_cycle"}
            => CycleKey(out_lines'[i]) \in InProgress

\* a call of _handle_event_ref that returns takes its own key out of
\* visited and nothing else
ReturnRestores ==
    (frames # <<>> /\ Top.op = "discard" /\ frames' # frames)
        => Top.el \in visited /\ visited' = visited \ {Top.el}

\* C25: visited is scoped to the path: it holds exactly the keys of the
\* calls of _handle_event_ref in progress, so a call that returns leaves
\* visited as it found it; expanded only grows; and a reference is labelled
\* a cycle only when its target is being expanded on the path at that moment.
VisitedIsPathScoped ==
    /\ []VisitedIsThePath
    /\ [][ReturnRestores /\ expanded \subseteq expanded' /\ CyclesAreOnThePath]_vars

\* C25 happens: the expansion has ended with a cycle reported, every call
\* has returned and visited is empty again, while expanded kept its keys
CycleReportedAndPathCleared ==
    /\ ExpandDone
    /\ visited = {}
    /\ expanded # {}
    /\ \E i \in 1..Len(out_lines) : out_lines[i].label \in {"event_cycle", "list_cycle"}

(***************************************************************************)
(* Properties of the choices of an event (SpecExpand).                     *)
(***************************************************************************)
\* the load attributes of the elements its, <<>> for an element without one
LoadsOf(files, its) == [k \in 1..Len(its) |-> AttrLoad(files, its[k])]

\* the items of the list an <eventList> child of a choice stands for
ItemsOfList(files, reg, evl) ==
    IF AttrLoad(files, evl) # <<>>
    THEN DictGetOr(reg.event_lists, AttrLoad(files, evl), <<>>)
    ELSE KidsOf(files, evl, "event")

\* the names the immediate outcomes of a choice load: its <event> children,
\* its <loadEvent> children, and the items of the lists it holds or loads
ImmediateOutcomes(files, reg, ch) ==
    LoadsOf(files, KidsOf(files, ch, "event"))
    \o [k \in 1..Len(KidsOf(files, ch, "loadEvent")) |->
           TextOf(files, KidsOf(files, ch, "loadEvent")[k])]
    \o Flat([k \in 1..Len(KidsOf(files, ch, "eventList")) |->
                LoadsOf(files, ItemsOfList(files, reg, KidsOf(files, ch, "eventList")[k]))])
    \o Flat([k \in 1..Len(KidsOf(files, ch, "loadEventList")) |->
                LoadsOf(files,
                        DictGetOr(reg.event_lists,
                                  TextOf(files, KidsOf(files, ch, "loadEventList")[k]),
                                  <<>>))])

\* the choice is rendered with its outcomes
RenderedWithOutcomes(files, reg, ch, depth) ==
    Choice(files, reg, ch, depth)
        = << Later(ChoiceLine(files, reg, ch, depth)) >> \o Outcomes(files, reg, ch, depth)

\* the choices of the event that was summarized first
TargetChoices == KidsOf(ExpandFiles[arg[1].key], target_event_el, "choice")

\* the first call of _summarize_event has gone through the event
TargetSummarized ==
    /\ target_event_el # <<>>
    /\ (frames = <<>> \/ Top.op # "summarize" \/ Top.depth > 0)

\* C26: a choice is suppressed by the invalid-option rule only when every
\* immediate outcome of it is OPTION_INVALID; a choice with at least one
\* immediate outcome that is not OPTION_INVALID is rendered together with
\* its outcomes.
ChoiceSuppressedOnlyWhenAllInvalid ==
    TargetSummarized =>
        \A ch \in Range(TargetChoices) :
            (\E o \in Range(ImmediateOutcomes(ExpandFiles[arg[1].key],
                                              ExpandRegistry[arg[1].key], ch)) :
                o # OPTION_INVALID)
               => RenderedWithOutcomes(ExpandFiles[arg[1].key],
                                       ExpandRegistry[arg[1].key], ch, 0)

\* what the code does: a choice is rendered with its outcomes exactly when
\* none of its immediate outcomes is OPTION_INVALID
ChoiceSuppressedWhenSomeInvalid ==
    TargetSummarized =>
        \A ch \in Range(TargetChoices) :
            (\A o \in Range(ImmediateOutcomes(ExpandFiles[arg[1].key],
                                              ExpandRegistry[arg[1].key], ch)) :
                o # OPTION_INVALID)
               <=> RenderedWithOutcomes(ExpandFiles[arg[1].key],
                                        ExpandRegistry[arg[1].key], ch, 0)

(***************************************************************************)
(* Properties of the levels of the inline outcomes (SpecExpand).           *)
(***************************************************************************)
\* _handle_event_ref is about to act on an <event> child, without a load, of
\* a choice
AtInlineOutcome ==
    /\ frames # <<>>
    /\ Top.op = "ref"
    /\ Top.el[1] # 0
    /\ TopLoad = <<>>

\* the <event> children of the choice the element el is a child of
SiblingEvents(files, el) ==
    KidsOf(files, <<el[1], files[el[1]].elems[el[2]].parent>>, "event")

\* the last line appended
LastLine == out_lines[Len(out_lines)]

\* the one inline event of a choice: the line before it is that of the
\* choice, at the level d of the event, and the inline event is summarized
\* at d + 1
OneInlineAtNextLevel ==
    /\ out_lines # <<>>
    /\ LastLine.label = choice_label
    /\ frames'[1] = Frame("summarize", Top.el, LastLine.ind + 1)

\* one of several inline events of a choice: the line before it is its
\* branch label, at d + 1 (one below the line of the choice when it is the
\* first), and the inline event is summarized at d + 2
SeveralInlineTwoLevelsOn ==
    /\ out_lines # <<>>
    /\ LastLine.label = "branch"
    /\ SiblingEvents(ExpandFiles[arg[1].key], Top.el)[LastLine.idx] = Top.el
    /\ LastLine.idx = 1
          => /\ Len(out_lines) > 1
             /\ out_lines[Len(out_lines) - 1].label = choice_label
             /\ out_lines[Len(out_lines) - 1].ind + 1 = LastLine.ind
    /\ frames'[1] = Frame("summarize", Top.el, LastLine.ind + 1)

\* the lines a call of _summarize_event appends first are at its depth
OwnLinesAtDepth ==
    (frames # <<>> /\ Top.op = "summarize" /\ Len(out_lines') > Len(out_lines)
        /\ out_lines'[Len(out_lines) + 1].label \in {"text", "effects", "trunc"})
       => out_lines'[Len(out_lines) + 1].ind = Top.depth

\* C27: the levels of the inline outcomes of a choice of an event rendered
\* at level d: the one inline event of a choice is rendered at d + 1, one
\* level below the event; each of several sibling inline events gets a
\* branch label at d + 1 and its content one level deeper, at d + 2.
InlineOutcomeLevels ==
    [][/\ (AtInlineOutcome /\ frames' # frames) =>
             IF Len(SiblingEvents(ExpandFiles[arg[1].key], Top.el)) = 1
             THEN OneInlineAtNextLevel
             ELSE SeveralInlineTwoLevelsOn
       /\ OwnLinesAtDepth]_vars

\* the lines from the i-th on are those of labels at the levels inds
LinesFrom(i, labels, inds) ==
    /\ i + Len(labels) - 1 <= Len(out_lines)
    /\ \A k \in 1..Len(labels) :
          /\ out_lines[i + k - 1].label = labels[k]
          /\ out_lines[i + k - 1].ind = inds[k]

\* C27 happens: event "M" was rendered at level 0; the one inline event of
\* its choice is at level 1, and the two inline events of the choice of
\* that event have their branch labels at level 2 and their texts at level 3
OneThenTwoInlineRendered ==
    /\ ExpandDone
    /\ arg[1].key = "k7"
    /\ target_event_el = <<4, 2>>
    /\ Len(out_lines) = 7
    /\ LinesFrom(1, <<choice_label, "text", choice_label, "branch", "text", "branch",
                      "text">>,
                 <<0, 1, 1, 2, 3, 2, 3>>)
    /\ out_lines[4].idx = 1 /\ out_lines[6].idx = 2

(***************************************************************************)
(* index_events_expanded as a machine (SpecIndex): one step per call,      *)
(* loop round and return of _expand_loads_in_tree, _expand_event_by_name   *)
(* and _expand_eventlist_by_name.  A call is a record on the stack; a call *)
(* that returns leaves its value in out, and its caller collects it.       *)
(***************************************************************************)
IndexKeys == {"k2", "k4", "k5", "k8"}

\* the max_expand_depth values passed; 16 is the default of search_once
IndexDepths == {0, 1, 2, 3, 16}

\* the calls the stack of the machine has room for
MaxStack == 16

FilesIndexed == [k \in IndexKeys |-> SortFiles(CorpusOf(k))]

RegistryIndexed == [k \in IndexKeys |-> build_registry(CorpusOf(k))]

\* base = _gather_subtree_text(el), of each event of the registry
BaseText ==
    [k \in IndexKeys |->
        [i \in 1..Len(RegistryIndexed[k].events) |->
            SubtreeText(FilesIndexed[k], RegistryIndexed[k].events[i][2])]]

\* what index_events_expanded returns
EntriesIndexed ==
    [k \in IndexKeys, d \in IndexDepths |->
        index_events_expanded(CorpusOf(k), RegistryIndexed[k], d)]

\* a call: op is what is called or what runs, about the event or list name,
\* the element or the position of the loop (in at), with the references or
\* items still to go (in rest) and the parts and seen_refs collected
IxCall(op, at, depth, rest, parts, seen, txt) ==
    [op |-> op, at |-> at, depth |-> depth, rest |-> rest, parts |-> parts,
     seen |-> seen, txt |-> txt]

\* a call that has been made and has not begun
IxNew(op, at, depth) == IxCall(op, at, depth, <<>>, <<>>, {}, <<>>)

\* the references of the elements its of a file, in that order
RefsOf(reg, f, its) == [k \in 1..Len(its) |-> RefOf(reg, f.elems[its[k]])]

\* the references the loop of _expand_loads_in_tree meets in the tree of el
RefsIn(reg, files, el) == RefsOf(reg, files[el[1]], RefElems(reg, files[el[1]], el[2]))

InitIndex ==
    /\ _CACHE_ENABLED = FALSE
    /\ _CACHE_LOCK = Free
    /\ _REGISTRY_CACHE = [k \in Keys |-> None]
    /\ _ENTRIES_CACHE = [ek \in Keys \X Depths |-> None]
    /\ _NODES_CACHE = [k \in Keys |-> None]
    /\ pc = [t \in Threads |-> "idle"]
    /\ \E k \in IndexKeys, d \in IndexDepths :
          arg = [t \in Threads |->
                    IF t = 1 THEN [key |-> k, query |-> <<>>, mode |-> <<>>,
                                   max_depth |-> d]
                    ELSE NoArg]
    /\ loc = [t \in Threads |-> NoLoc]
    /\ result = [t \in Threads |-> NoResult]
    /\ calls = 0
    /\ builds = 0
    /\ NotRendering
    /\ indexer = Indexer(<< IxNew("events", 1, 0) >>, <<>>, {}, <<>>, <<>>, FALSE)

\* the call on top of the stack of the index build
IxTop == Head(indexer.stack)

\* the callers of the call on top
IxBelow == Tail(indexer.stack)

IxReg == RegistryIndexed[arg[1].key]

IxFiles == FilesIndexed[arg[1].key]

\* the call on top has op and runs: no value is waiting to be collected
Running(op) ==
    /\ indexer.stack # <<>>
    /\ IxTop.op = op
    /\ ~indexer.returned

\* the call on top has op and the call it made has returned
Resumed(op) ==
    /\ indexer.stack # <<>>
    /\ IxTop.op = op
    /\ indexer.returned

\* there is room on the stack for n more calls
Room(n) == Len(indexer.stack) + n <= MaxStack

\* what the index build leaves alone
IxApart ==
    UNCHANGED <<_CACHE_ENABLED, _CACHE_LOCK, caches, pc, arg, loc, result, calls,
                builds, rendering>>

\* the call on top returns out
IxReturn(out, expand_cache, path) ==
    indexer' = Indexer(IxBelow, expand_cache, path, indexer.entries, out, TRUE)

\* the stack becomes stack, nothing is returned
IxGoOn(stack, path) ==
    indexer' = Indexer(stack, indexer.expand_cache, path, indexer.entries, <<>>, FALSE)

\* for name, (fp, el) in reg.events.items(): _expand_loads_in_tree(el, 0, set())
EventsCall ==
    /\ Running("events")
    /\ IxTop.at <= Len(IxReg.events)
    /\ Room(1)
    /\ IxGoOn(<< IxNew("call_tree", IxReg.events[IxTop.at][2], 0) >> \o indexer.stack, {})
    /\ IxApart

\* extra is back: the entry of the event is appended if it has text
EventsCollect ==
    /\ Resumed("events")
    /\ indexer' =
          Indexer(<< IxNew("events", IxTop.at + 1, 0) >> \o IxBelow,
                  indexer.expand_cache, indexer.visited,
                  AppendEntry(indexer.entries, IxReg.events[IxTop.at][1],
                              IxReg.events[IxTop.at][2][1],
                              Strip(BaseText[arg[1].key][IxTop.at]
                                    \o <<" ">> \o indexer.out)),
                  <<>>, FALSE)
    /\ IxApart

\* the loop over the events is over: the fallback entries, and return entries
EventsReturn ==
    /\ Running("events")
    /\ IxTop.at > Len(IxReg.events)
    /\ indexer' =
          Indexer(<<>>, indexer.expand_cache, indexer.visited,
                  indexer.entries \o FallbackEntries(DictKeys(IxReg.events), IxFiles, 1),
                  <<>>, FALSE)
    /\ IxApart

\* _expand_loads_in_tree: "if depth >= max_expand_depth: return ''"
TreeAtLimit ==
    /\ Running("call_tree")
    /\ IxTop.depth >= arg[1].max_depth
    /\ IxReturn(<<>>, indexer.expand_cache, indexer.visited)
    /\ IxApart

\* _expand_loads_in_tree within the limit: the loop over root_el.iter() begins
TreeEnter ==
    /\ Running("call_tree")
    /\ IxTop.depth < arg[1].max_depth
    /\ IxGoOn(<< IxCall("tree", IxTop.at, IxTop.depth, RefsIn(IxReg, IxFiles, IxTop.at),
                        <<>>, {}, <<>>) >> \o IxBelow,
              indexer.visited)
    /\ IxApart

\* the tree loop with its first reference taken off, its parts and seen_refs
TreeOn(parts, seen) ==
    IxCall("tree", IxTop.at, IxTop.depth, Tail(IxTop.rest), parts, seen, <<>>)

\* a reference that is in seen_refs: nothing is added
TreeSeen ==
    /\ Running("tree")
    /\ IxTop.rest # <<>>
    /\ Head(IxTop.rest) \in IxTop.seen
    /\ IxGoOn(<< TreeOn(IxTop.parts, IxTop.seen) >> \o IxBelow, indexer.visited)
    /\ IxApart

\* <text load="...">: the text of the text list is added
TreeText ==
    /\ Running("tree")
    /\ IxTop.rest # <<>>
    /\ Head(IxTop.rest) \notin IxTop.seen
    /\ Head(IxTop.rest)[1] = "T"
    /\ IxGoOn(<< TreeOn(Append(IxTop.parts, _text_for_textlist(IxReg, Head(IxTop.rest)[2])),
                        IxTop.seen \cup {Head(IxTop.rest)}) >> \o IxBelow,
              indexer.visited)
    /\ IxApart

\* a reference to an event or a list: _expand_event_by_name or
\* _expand_eventlist_by_name is called at depth + 1
TreeCall ==
    /\ Running("tree")
    /\ IxTop.rest # <<>>
    /\ Head(IxTop.rest) \notin IxTop.seen
    /\ Head(IxTop.rest)[1] \in {"E", "L"}
    /\ Room(1)
    /\ IxGoOn(<< IxNew("call_name", Head(IxTop.rest), IxTop.depth + 1),
                 TreeOn(IxTop.parts, IxTop.seen \cup {Head(IxTop.rest)}) >> \o IxBelow,
              indexer.visited)
    /\ IxApart

\* parts.append(...) of what the call returned
TreeCollect ==
    /\ Resumed("tree")
    /\ IxGoOn(<< IxCall("tree", IxTop.at, IxTop.depth, IxTop.rest,
                        Append(IxTop.parts, indexer.out), IxTop.seen, <<>>) >>
                 \o IxBelow,
              indexer.visited)
    /\ IxApart

\* the loop is over: _expand_loads_in_tree returns its parts joined
TreeReturn ==
    /\ Running("tree")
    /\ IxTop.rest = <<>>
    /\ IxReturn(JoinParts(IxTop.parts), indexer.expand_cache, indexer.visited)
    /\ IxApart

\* a variant of the test that stops nothing
NeverStops(depth, key, path, maxd) == FALSE

\* "if depth >= max_expand_depth or key in visited: return ''"
Stops(depth, key, path, maxd) == depth >= maxd \/ key \in path

\* the table an event or a list is looked up in
TableOf(reg, key) == IF key[1] = "E" THEN reg.events ELSE reg.event_lists

\* a call by name that the depth limit or visited stops
NameStopped ==
    /\ Running("call_name")
    /\ Stops(IxTop.depth, IxTop.at, indexer.visited, arg[1].max_depth)
    /\ IxReturn(<<>>, indexer.expand_cache, indexer.visited)
    /\ IxApart

\* "if key in expand_cache: return expand_cache[key]"
NameCached ==
    /\ Running("call_name")
    /\ ~Stops(IxTop.depth, IxTop.at, indexer.visited, arg[1].max_depth)
    /\ DictHas(indexer.expand_cache, IxTop.at)
    /\ IxReturn(DictGet(indexer.expand_cache, IxTop.at), indexer.expand_cache,
                indexer.visited)
    /\ IxApart

\* "if not pair: return ''", "if not items: return ''"
NameUnknown ==
    /\ Running("call_name")
    /\ ~Stops(IxTop.depth, IxTop.at, indexer.visited, arg[1].max_depth)
    /\ ~DictHas(indexer.expand_cache, IxTop.at)
    /\ ~DictHas(TableOf(IxReg, IxTop.at), IxTop.at[2])
    /\ IxReturn(<<>>, indexer.expand_cache, indexer.visited)
    /\ IxApart

\* the call goes on to expand the event or the list
NameExpands ==
    /\ Running("call_name")
    /\ ~Stops(IxTop.depth, IxTop.at, indexer.visited, arg[1].max_depth)
    /\ ~DictHas(indexer.expand_cache, IxTop.at)
    /\ DictHas(TableOf(IxReg, IxTop.at), IxTop.at[2])

\* _expand_event_by_name: visited.add(key), txt, and the call of
\* _expand_loads_in_tree(el, depth + 1, visited)
EventEnter ==
    /\ NameExpands
    /\ IxTop.at[1] = "E"
    /\ Room(1)
    /\ IxGoOn(<< IxNew("call_tree", DictGet(IxReg.events, IxTop.at[2]), IxTop.depth + 1),
                 IxCall("event", IxTop.at, IxTop.depth, <<>>, <<>>, {},
                        SubtreeText(IxFiles, DictGet(IxReg.events, IxTop.at[2]))) >>
                 \o IxBelow,
              indexer.visited \cup {IxTop.at})
    /\ IxApart

\* more is back: out is cached and returned, and the key discarded
EventReturn ==
    /\ Resumed("event")
    /\ IxReturn(Strip(IxTop.txt \o <<" ">> \o indexer.out),
                DictPut(indexer.expand_cache, IxTop.at,
                        Strip(IxTop.txt \o <<" ">> \o indexer.out)),
                indexer.visited \ {IxTop.at})
    /\ IxApart

\* _expand_eventlist_by_name: visited.add(key), and the loop over the items
ListEnter ==
    /\ NameExpands
    /\ IxTop.at[1] = "L"
    /\ IxGoOn(<< IxCall("list", IxTop.at, IxTop.depth,
                        DictGet(IxReg.event_lists, IxTop.at[2]), <<>>, {}, <<>>) >>
                 \o IxBelow,
              indexer.visited \cup {IxTop.at})
    /\ IxApart

\* one item: its text is added, and _expand_loads_in_tree(it, depth + 1,
\* visited) is called
ListItem ==
    /\ Running("list")
    /\ IxTop.rest # <<>>
    /\ Room(1)
    /\ IxGoOn(<< IxNew("call_tree", Head(IxTop.rest), IxTop.depth + 1),
                 IxCall("list", IxTop.at, IxTop.depth, Tail(IxTop.rest),
                        Append(IxTop.parts, SubtreeText(IxFiles, Head(IxTop.rest))),
                        {}, <<>>) >> \o IxBelow,
              indexer.visited)
    /\ IxApart

\* parts.append(...) of what the item's tree gave
ListCollect ==
    /\ Resumed("list")
    /\ IxGoOn(<< IxCall("list", IxTop.at, IxTop.depth, IxTop.rest,
                        Append(IxTop.parts, indexer.out), {}, <<>>) >> \o IxBelow,
              indexer.visited)
    /\ IxApart

\* the items are done: out is cached and returned, and the key discarded
ListReturn ==
    /\ Running("list")
    /\ IxTop.rest = <<>>
    /\ IxReturn(JoinParts(IxTop.parts),
                DictPut(indexer.expand_cache, IxTop.at, JoinParts(IxTop.parts)),
                indexer.visited \ {IxTop.at})
    /\ IxApart

NextIndex ==
    \/ EventsCall \/ EventsCollect \/ EventsReturn
    \/ TreeAtLimit \/ TreeEnter \/ TreeSeen \/ TreeText \/ TreeCall \/ TreeCollect
    \/ TreeReturn
    \/ NameStopped \/ NameCached \/ NameUnknown
    \/ EventEnter \/ EventReturn
    \/ ListEnter \/ ListItem \/ ListCollect \/ ListReturn

\* the index build, and the build when the interpreter keeps running it
SpecIndex == InitIndex /\ [][NextIndex]_vars /\ WF_vars(NextIndex)

\* index_events_expanded has returned
IndexBuilt == indexer.stack = <<>> /\ arg[1].key \in IndexKeys

(***************************************************************************)
(* Properties of the index build (SpecIndex).                              *)
(***************************************************************************)
\* the positions on the stack of the expansions by name in progress
NamePositions ==
    {i \in 1..Len(indexer.stack) : indexer.stack[i].op \in {"event", "list"}}

\* visited is the path: the keys of the expansions by name in progress,
\* each of them once
VisitedIsTheIndexPath ==
    /\ indexer.visited = {indexer.stack[i].at : i \in NamePositions}
    /\ Cardinality(indexer.visited) = Cardinality(NamePositions)

\* every expansion in progress is within the depth limit, and there is
\* room on the stack for the calls it makes
WithinDepthLimit ==
    /\ \A i \in 1..Len(indexer.stack) :
          indexer.stack[i].op \in {"tree", "event", "list"}
             => indexer.stack[i].depth < arg[1].max_depth
    /\ Len(indexer.stack) < MaxStack

\* the entries returned are those of index_events_expanded
BuiltAsIndexed ==
    IndexBuilt => indexer.entries = EntriesIndexed[arg[1].key, arg[1].max_depth]

\* C30: building the expanded-entry index terminates for every registry,
\* those whose events and lists refer to each other in cycles included,
\* and for every max_expand_depth >= 0: every expansion by name in progress
\* is on the path that visited holds and within the depth limit, so a
\* reference back into the path or beyond the limit is stopped, and the
\* build returns its entries in the end.
IndexBuildTerminates ==
    /\ [](VisitedIsTheIndexPath /\ WithinDepthLimit /\ BuiltAsIndexed)
    /\ <>IndexBuilt

\* C30 happens: the index of a registry in which event "A" loads itself
\* was built with the default depth, and "A" has its entry and its cached
\* expansion
CyclicIndexBuilt ==
    /\ IndexBuilt
    /\ arg[1].key = "k4"
    /\ arg[1].max_depth = 16
    /\ <<"E", <<"A">>>> \in Range(RefsIn(IxReg, IxFiles, DictGet(IxReg.events, <<"A">>)))
    /\ DictHas(indexer.expand_cache, <<"E", <<"A">>>>)
    /\ \E i \in 1..Len(indexer.entries) : indexer.entries[i].name = <<"A">>
====
